---- MODULE Spec2Model ----
(***************************************************************************)
(* NameCaseLib (NodeJS port): declension of Ukrainian and Russian full     *)
(* names.  The model follows NCLNameCaseCore (the engine), NCLNameCaseWord *)
(* (one record per token) and the two language modules NCLNameCaseUa and   *)
(* NCLNameCaseRu.                                                          *)
(*                                                                         *)
(* A JavaScript string is modelled as a sequence of letters.  TLA+ strings *)
(* are ASCII, so every Cyrillic letter has an ASCII name: the lowercase    *)
(* letters are named in LowerLetters (same order as the alphabet           *)
(* а б в г ґ д е ё є ж з и і ї й к л м н о п р с т у ф х ц ч ш щ ъ ы ь э   *)
(* ю я), an uppercase letter has the name of its lowercase letter in       *)
(* capitals, "'" is the apostrophe, "-" the hyphen and " " the space.      *)
(* An operation that throws is modelled by the name of the error it        *)
(* throws; an operation that returns leaves "none" there.                  *)
(***************************************************************************)
EXTENDS Integers, Sequences, FiniteSets, TLC

\* ------------------------------------------------------------------------
\* Letters and strings
\* ------------------------------------------------------------------------

LowerLetters == << "a", "b", "v", "g", "gg", "d", "e", "yo", "ye", "zh", "z", "y", "i", "yi", "j", "k", "l", "m", "n", "o", "p", "r", "s", "t", "u", "f", "h", "c", "ch", "sh", "shch", "hs", "yy", "ss", "eh", "yu", "ya" >>

UpperLetters == << "A", "B", "V", "G", "GG", "D", "E", "YO", "YE", "ZH", "Z", "Y", "I", "YI", "J", "K", "L", "M", "N", "O", "P", "R", "S", "T", "U", "F", "H", "C", "CH", "SH", "SHCH", "HS", "YY", "SS", "EH", "YU", "YA" >>

OtherChars == {"'", "-", " ", "Zlat"}

Chars == {LowerLetters[i] : i \in DOMAIN LowerLetters}
            \cup {UpperLetters[i] : i \in DOMAIN UpperLetters} \cup OtherChars

UpperOf == [c \in Chars |->
              IF \E i \in DOMAIN LowerLetters : LowerLetters[i] = c
              THEN UpperLetters[CHOOSE i \in DOMAIN LowerLetters : LowerLetters[i] = c]
              ELSE c]

LowerOf == [c \in Chars |->
              IF \E i \in DOMAIN UpperLetters : UpperLetters[i] = c
              THEN LowerLetters[CHOOSE i \in DOMAIN UpperLetters : UpperLetters[i] = c]
              ELSE c]

Min(a, b) == IF a < b THEN a ELSE b

Max(a, b) == IF a > b THEN a ELSE b

\* String.prototype.toLowerCase
toLowerCase(s) == [i \in 1..Len(s) |-> LowerOf[s[i]]]

\* NCLStr.strtolower
strtolower(s) == [i \in 1..Len(s) |-> LowerOf[s[i]]]

\* NCLStr.strtoupper
strtoupper(s) == [i \in 1..Len(s) |-> UpperOf[s[i]]]

\* NCLStr.isLowerCase: the letter is its own lowercase form
isLowerCase(c) == LowerOf[c] = c

\* String.prototype.slice(start, end) with 0-based, possibly negative, bounds
JsSlice(s, start, end) ==
    LET len == Len(s)
        st  == IF start < 0 THEN Max(len + start, 0) ELSE Min(start, len)
        en  == IF end < 0 THEN Max(len + end, 0) ELSE Min(end, len)
    IN  SubSeq(s, st + 1, en)

\* String.prototype.substring(0, end): a negative end counts as 0
JsSubstring0(s, end) == SubSeq(s, 1, Min(Max(end, 0), Len(s)))

\* NCLStr.substr(s, start, length): the multibyte substr of the PHP original
substr(s, start, length) ==
    LET len == Len(s)
        st  == IF start < 0 THEN Max(len + start, 0) ELSE Min(start, len)
        en  == IF length < 0 THEN Max(len + length, st) ELSE Min(st + length, len)
    IN  SubSeq(s, st + 1, en)

\* NCLStr.strrpos(s, c): 0-based position of the last occurrence of letter c
strrpos(s, c) ==
    IF \E i \in 1..Len(s) : s[i] = c
    THEN (CHOOSE i \in 1..Len(s) : s[i] = c /\ \A j \in (i + 1)..Len(s) : s[j] # c) - 1
    ELSE -1

\* String.prototype.includes
Includes(hay, needle) ==
    \E i \in 0..(Len(hay) - Len(needle)) : SubSeq(hay, i + 1, i + Len(needle)) = needle

\* String.prototype.split('-')
RECURSIVE SplitHyphen(_)
SplitHyphen(s) ==
    IF \E i \in 1..Len(s) : s[i] = "-"
    THEN LET i == CHOOSE i \in 1..Len(s) : s[i] = "-" /\ \A j \in 1..(i - 1) : s[j] # "-"
         IN  <<SubSeq(s, 1, i - 1)>> \o SplitHyphen(SubSeq(s, i + 1, Len(s)))
    ELSE <<s>>

\* Array.prototype.join(sep)
RECURSIVE Join(_, _)
Join(parts, sep) ==
    IF Len(parts) = 0 THEN <<>>
    ELSE IF Len(parts) = 1 THEN parts[1]
    ELSE parts[1] \o sep \o Join(Tail(parts), sep)

\* ------------------------------------------------------------------------
\* NCL: constants and the registry of language classes
\* ------------------------------------------------------------------------

MAN == 1

WOMAN == 2

CaseCountUa == 7

CaseCountRu == 6

Langs == {"ua", "ru"}

CaseCount(lang) == IF lang = "ua" THEN CaseCountUa ELSE CaseCountRu

\* NCL.getConcreteClass(lang): the registered class, or null
getConcreteClass(reg, lang) == IF lang \in reg THEN lang ELSE "null"

\* ------------------------------------------------------------------------
\* NCLNameCaseWord
\* ------------------------------------------------------------------------

\* generateMask: 'x' for a lowercase letter, 'X' otherwise
generateMask(w) == [i \in 1..Len(w) |-> IF isLowerCase(w[i]) THEN "x" ELSE "X"]

\* generateMask: isUpperCase stays true unless some letter is lowercase
maskIsUpperCase(w) == \A i \in 1..Len(w) : ~isLowerCase(w[i])

\* constructor(word)
NewWord(w) ==
    [word_orig    |-> w,
     word         |-> strtolower(w),
     namePart     |-> "",
     genderMan    |-> 0,
     genderWoman  |-> 0,
     genderSolved |-> 0,
     letterMask   |-> generateMask(w),
     isUpperCase  |-> maskIsUpperCase(w),
     NameCases    |-> <<>>,
     rule         |-> 0]

\* A returnMask that puts every form in lowercase, whatever the mask is
returnMaskLower(rec, kase) == strtolower(kase)

\* A returnMask that drops the letters of a form beyond the mask
returnMaskCaseCut(rec, kase) ==
    IF rec.isUpperCase
    THEN strtoupper(kase)
    ELSE [i \in 1..Min(Len(kase), Len(rec.letterMask)) |->
             IF rec.letterMask[i] = "X" THEN UpperOf[kase[i]] ELSE kase[i]]

\* returnMask applied to one case form
returnMaskCase(rec, kase) ==
    IF rec.isUpperCase
    THEN strtoupper(kase)
    ELSE LET caseLength == Len(kase)
             maskLength == Len(rec.letterMask)
             max        == Min(caseLength, maskLength)
         IN  [i \in 1..max |-> IF rec.letterMask[i] = "X" THEN UpperOf[kase[i]] ELSE kase[i]]
               \o substr(kase, max, caseLength - maskLength)

\* returnMask
returnMask(rec) ==
    [rec EXCEPT !.NameCases = [i \in 1..Len(rec.NameCases) |-> returnMaskCase(rec, rec.NameCases[i])]]

\* setNameCases(nameCases, is_return_mask)
setNameCases(rec, nameCases, is_return_mask) ==
    LET r == [rec EXCEPT !.NameCases = nameCases]
    IN  IF is_return_mask THEN returnMask(r) ELSE r

\* gender(): resolves the gender from the scores when it is not solved yet
wordGender(rec) ==
    IF rec.genderSolved = 0
    THEN IF rec.genderMan >= rec.genderWoman THEN MAN ELSE WOMAN
    ELSE rec.genderSolved


\* ------------------------------------------------------------------------
\* NCLNameCaseCore: helpers of the rules
\* ------------------------------------------------------------------------

\* Last(length, stopAfter) as computed on working word w:
\* w.slice(-length, stopAfter > 0 ? w.length - length + stopAfter : undefined)
LastSlice(w, length, stopAfter) ==
    IF stopAfter > 0
    THEN JsSlice(w, 0 - length, Len(w) - length + stopAfter)
    ELSE JsSlice(w, 0 - length, Len(w))

Last(w, length, stopAfter) == LastSlice(w, length, stopAfter)

\* in(letter, string) with a string to search in
In(letter, string) == letter # <<>> /\ Includes(string, letter)

\* in(letter, array) with an array to search in
InList(letter, array) == letter # <<>> /\ letter \in array

\* inNames(nameNeedle, names)
inNames(nameNeedle, names) == toLowerCase(nameNeedle) \in {toLowerCase(n) : n \in names}

\* makeResultTheSame
makeResultTheSame(workingWord, cc) == [i \in 1..cc |-> workingWord]

\* A wordForms that leaves the nominative out: one form per ending
wordFormsEndingsOnly(workingWord, word, endings, replaceLast, cc) ==
    [i \in 1..Len(endings) |-> JsSubstring0(word, Len(word) - replaceLast) \o endings[i]]

\* wordForms(word, endings, replaceLast): the nominative is the working word
wordForms(workingWord, word, endings, replaceLast, cc) ==
    [i \in 1..cc |-> IF i = 1 THEN workingWord
                     ELSE JsSubstring0(word, Len(word) - replaceLast) \o endings[i - 1]]

\* What a rule, a rule chain or a <gender><Part>Name method leaves behind:
\* its boolean result, the error it threw, lastResult and lastRule.  A method
\* that ends in "return this.RulesChain(gender, rules)" hands gender and rules
\* over in chain.
NoMatch == [ok |-> FALSE, err |-> "none", lastResult |-> <<>>, lastRule |-> 0, chain |-> <<>>]

Matched(result, ruleID) == [NoMatch EXCEPT !.ok = TRUE, !.lastResult = result, !.lastRule = ruleID]

Threw(e) == [NoMatch EXCEPT !.err = e]

ReturnRulesChain(gender, rulesArray) == [NoMatch EXCEPT !.chain = <<gender, rulesArray>>]

\* ------------------------------------------------------------------------
\* NCLNameCaseRu: declension rules
\* ------------------------------------------------------------------------

RuVowels == <<"a","e","yo","y","o","u","yy","eh","yu","ya">>

RuConsonant == <<"b","v","g","d","zh","z","j","k","l","m","n","p","r","s","t","f","h","c","ch","sh","shch">>

RuOvo == {<<"o","v","o">>, <<"a","g","o">>, <<"ya","g","o">>, <<"y","r","ss">>}

RuIh == {<<"y","h">>, <<"yy","h">>, <<"k","o">>, <<"u","a">>}

RuNamesMan ==
    {<<"V","o","v","a">>, <<"A","n","r","y">>, <<"P","y","t","e","r">>, <<"P","a","u","l","ss">>, <<"F","r","a","n","c">>, <<"V","y","l","ss","ya","m">>, <<"U","y","l","ss","ya","m">>,
     <<"A","l","ss","f","o","n","s">>, <<"G","a","n","s">>, <<"F","r","a","n","s">>, <<"F","y","l","y","p","p","o">>, <<"A","n","d","r","e","a">>, <<"K","o","r","n","e","l","y","s">>, <<"F","r","eh","n","k">>, <<"L","e","o","n","a","r","d","o">>,
     <<"D","zh","e","j","m","s">>, <<"O","t","t","o">>, <<"zh","a","n","-","p","ss","e","r">>, <<"D","zh","o","v","a","n","n","y">>, <<"D","zh","o","z","e","f">>, <<"P","e","d","r","o">>, <<"A","d","o","l","ss","f">>, <<"U","o","l","t","e","r">>,
     <<"A","n","t","o","n","y","o">>, <<"YA","k","o","b">>, <<"EH","s","t","a","sh">>, <<"A","d","r","y","a","n","s">>, <<"F","r","a","n","ch","e","s","k","o">>, <<"D","o","m","e","n","y","k","o">>, <<"H","a","n","s">>, <<"G","u","n">>,
     <<"SH","a","r","l","ss">>, <<"H","e","n","d","r","y","k">>, <<"A","m","b","r","o","z","y","u","s">>, <<"T","a","d","d","e","o">>, <<"F","e","r","d","y","n","a","n","d">>, <<"D","zh","o","sh","u","a">>, <<"Y","z","a","k">>, <<"Y","o","g","a","n","n">>,
     <<"F","r","y","d","r","y","h">>, <<"EH","m","y","l","ss">>, <<"U","m","b","e","r","t","o">>, <<"F","r","a","n","s","u","a">>, <<"YA","n">>, <<"EH","r","n","s","t">>, <<"G","e","o","r","g">>, <<"K","a","r","l">>}

RuManRule1(w) ==
    IF In(Last(w, 1, 0), <<"ss","j">>)
    THEN IF inNames(w, {<<"D","e","l","ss">>})
         THEN Matched(makeResultTheSame(w, CaseCountRu), 101)
         ELSE IF Last(w, 2, 1) # <<"y">>
         THEN Matched(wordForms(w, w, <<<<"ya">>, <<"yu">>, <<"ya">>, <<"e","m">>, <<"e">>>>, 1, CaseCountRu), 102)
         ELSE Matched(wordForms(w, w, <<<<"ya">>, <<"yu">>, <<"ya">>, <<"e","m">>, <<"y">>>>, 1, CaseCountRu), 103)
    ELSE NoMatch

RuManRule2(w) ==
    IF In(Last(w, 1, 0), RuConsonant)
    THEN IF inNames(w, {<<"P","a","v","e","l">>})
         THEN Matched(<<<<"P","a","v","e","l">>, <<"P","a","v","l","a">>, <<"P","a","v","l","u">>, <<"P","a","v","l","a">>, <<"P","a","v","l","o","m">>, <<"P","a","v","l","e">>>>, 201)
         ELSE IF inNames(w, {<<"L","e","v">>})
         THEN Matched(<<<<"L","e","v">>, <<"L","ss","v","a">>, <<"L","ss","v","u">>, <<"L","ss","v","a">>, <<"L","ss","v","o","m">>, <<"L","ss","v","e">>>>, 202)
         ELSE IF inNames(w, {<<"v","a","n">>})
         THEN Matched(makeResultTheSame(w, CaseCountRu), 203)
         ELSE Matched(wordForms(w, w, <<<<"a">>, <<"u">>, <<"a">>, <<"o","m">>, <<"e">>>>, 0, CaseCountRu), 204)
    ELSE NoMatch

RuManRule3(w) ==
    IF Last(w, 1, 0) = <<"a">>
    THEN IF inNames(w, {<<"f","r","a">>, <<"D","e","g","a">>, <<"A","n","d","r","e","a">>, <<"S","yo","r","a">>, <<"S","e","r","a">>})
         THEN Matched(makeResultTheSame(w, CaseCountRu), 301)
         ELSE IF ~In(Last(w, 2, 1), <<"k","sh","g","h">>)
         THEN Matched(wordForms(w, w, <<<<"yy">>, <<"e">>, <<"u">>, <<"o","j">>, <<"e">>>>, 1, CaseCountRu), 302)
         ELSE Matched(wordForms(w, w, <<<<"y">>, <<"e">>, <<"u">>, <<"o","j">>, <<"e">>>>, 1, CaseCountRu), 303)
    ELSE IF Last(w, 1, 0) = <<"ya">>
    THEN Matched(wordForms(w, w, <<<<"y">>, <<"e">>, <<"yu">>, <<"e","j">>, <<"e">>>>, 1, CaseCountRu), 303)
    ELSE NoMatch

RuManRule4(w) ==
    IF In(Last(w, 1, 0), <<"ss","j">>)
    THEN IF Last(w, 3, 0) = <<"b","e","j">>
         THEN Matched(wordForms(w, w, <<<<"ss","ya">>, <<"ss","yu">>, <<"ss","ya">>, <<"ss","e","m">>, <<"ss","e">>>>, 2, CaseCountRu), 400)
         ELSE IF Last(w, 3, 1) = <<"a">> \/ In(Last(w, 2, 1), <<"e","l">>)
         THEN Matched(wordForms(w, w, <<<<"ya">>, <<"yu">>, <<"ya">>, <<"e","m">>, <<"e">>>>, 1, CaseCountRu), 401)
         ELSE IF Last(w, 2, 1) = <<"yy">> \/ Last(w, 3, 1) = <<"t">>
         THEN Matched(wordForms(w, w, <<<<"o","g","o">>, <<"o","m","u">>, <<"o","g","o">>, <<"yy","m">>, <<"o","m">>>>, 2, CaseCountRu), 402)
         ELSE IF Last(w, 3, 0) = <<"ch","y","j">>
         THEN Matched(wordForms(w, w, <<<<"ss","e","g","o">>, <<"ss","e","m","u">>, <<"ss","e","g","o">>, <<"ss","y","m">>, <<"ss","e","m">>>>, 2, CaseCountRu), 403)
         ELSE IF ~In(Last(w, 2, 1), RuVowels) \/ Last(w, 2, 1) = <<"y">>
         THEN Matched(wordForms(w, w, <<<<"o","g","o">>, <<"o","m","u">>, <<"o","g","o">>, <<"y","m">>, <<"o","m">>>>, 2, CaseCountRu), 404)
         ELSE Matched(makeResultTheSame(w, CaseCountRu), 405)
    ELSE NoMatch

\* in_array is not defined anywhere: evaluating it throws a ReferenceError
RuManRule5(w) ==
    IF Last(w, 1, 0) = <<"k">>
    THEN IF Last(w, 4, 0) = <<"e","n","o","k">> \/ Last(w, 4, 0) = <<"yo","n","o","k">>
         THEN Matched(wordForms(w, w, <<<<"k","a">>, <<"k","u">>, <<"k","a">>, <<"k","o","m">>, <<"k","e">>>>, 2, CaseCountRu), 501)
         ELSE IF Last(w, 2, 1) = <<"e">>
         THEN Threw("ReferenceError")
         ELSE Matched(wordForms(w, w, <<<<"a">>, <<"u">>, <<"a">>, <<"o","m">>, <<"e">>>>, 0, CaseCountRu), 503)
    ELSE NoMatch

RuManRule6(w) ==
    IF Last(w, 1, 0) = <<"ch">>
    THEN Matched(wordForms(w, w, <<<<"a">>, <<"u">>, <<"a">>, <<"e","m">>, <<"e">>>>, 0, CaseCountRu), 601)
    ELSE IF Last(w, 2, 0) = <<"e","c">>
    THEN Matched(wordForms(w, w, <<<<"c","a">>, <<"c","u">>, <<"c","a">>, <<"c","o","m">>, <<"c","e">>>>, 2, CaseCountRu), 604)
    ELSE IF In(Last(w, 1, 0), <<"c","s","r","sh","m","h","t">>)
    THEN Matched(wordForms(w, w, <<<<"a">>, <<"u">>, <<"a">>, <<"o","m">>, <<"e">>>>, 0, CaseCountRu), 602)
    ELSE IF In(Last(w, 1, 0), RuConsonant)
    THEN Matched(wordForms(w, w, <<<<"a">>, <<"u">>, <<"a">>, <<"yy","m">>, <<"e">>>>, 0, CaseCountRu), 603)
    ELSE NoMatch

RuManRule7(w) ==
    IF Last(w, 1, 0) = <<"a">>
    THEN IF inNames(w, {<<"d","a">>})
         THEN Matched(makeResultTheSame(w, CaseCountRu), 701)
         ELSE IF Last(w, 2, 1) = <<"sh">>
         THEN Matched(wordForms(w, w, <<<<"y">>, <<"e">>, <<"u">>, <<"e","j">>, <<"e">>>>, 1, CaseCountRu), 702)
         ELSE IF In(Last(w, 2, 1), <<"h","k","g">>)
         THEN Matched(wordForms(w, w, <<<<"y">>, <<"e">>, <<"u">>, <<"o","j">>, <<"e">>>>, 1, CaseCountRu), 703)
         ELSE Matched(wordForms(w, w, <<<<"yy">>, <<"e">>, <<"u">>, <<"o","j">>, <<"e">>>>, 1, CaseCountRu), 704)
    ELSE IF Last(w, 1, 0) = <<"ya">>
    THEN Matched(wordForms(w, w, <<<<"o","j">>, <<"o","j">>, <<"u","yu">>, <<"o","j">>, <<"o","j">>>>, 2, CaseCountRu), 705)
    ELSE NoMatch

RuManRule8(w) ==
    IF InList(Last(w, 3, 0), RuOvo) \/ InList(Last(w, 2, 0), RuIh)
    THEN IF inNames(w, {<<"r","e","r","y","h">>})
         THEN NoMatch
         ELSE Matched(makeResultTheSame(w, CaseCountRu), 8)
    ELSE NoMatch

RuWomanRule1(w) ==
    IF Last(w, 1, 0) = <<"a">> /\ Last(w, 2, 1) # <<"y">>
    THEN IF ~In(Last(w, 2, 1), <<"sh","h","k","g">>)
         THEN Matched(wordForms(w, w, <<<<"yy">>, <<"e">>, <<"u">>, <<"o","j">>, <<"e">>>>, 1, CaseCountRu), 101)
         ELSE IF Last(w, 2, 1) = <<"sh">>
         THEN Matched(wordForms(w, w, <<<<"y">>, <<"e">>, <<"u">>, <<"e","j">>, <<"e">>>>, 1, CaseCountRu), 102)
         ELSE Matched(wordForms(w, w, <<<<"y">>, <<"e">>, <<"u">>, <<"o","j">>, <<"e">>>>, 1, CaseCountRu), 103)
    ELSE NoMatch

RuWomanRule2(w) ==
    IF Last(w, 1, 0) = <<"ya">>
    THEN IF Last(w, 2, 1) # <<"y">>
         THEN Matched(wordForms(w, w, <<<<"y">>, <<"e">>, <<"yu">>, <<"e","j">>, <<"e">>>>, 1, CaseCountRu), 201)
         ELSE Matched(wordForms(w, w, <<<<"y">>, <<"y">>, <<"yu">>, <<"e","j">>, <<"y">>>>, 1, CaseCountRu), 202)
    ELSE NoMatch

RuWomanRule3(w) ==
    IF Last(w, 1, 0) = <<"ss">>
    THEN Matched(wordForms(w, w, <<<<"y">>, <<"y">>, <<"ss">>, <<"ss","yu">>, <<"y">>>>, 1, CaseCountRu), 3)
    ELSE NoMatch

RuWomanRule4(w) ==
    IF Last(w, 1, 0) = <<"a">>
    THEN IF In(Last(w, 2, 1), <<"g","k">>)
         THEN Matched(wordForms(w, w, <<<<"y">>, <<"e">>, <<"u">>, <<"o","j">>, <<"e">>>>, 1, CaseCountRu), 401)
         ELSE IF In(Last(w, 2, 1), <<"sh">>)
         THEN Matched(wordForms(w, w, <<<<"y">>, <<"e">>, <<"u">>, <<"e","j">>, <<"e">>>>, 1, CaseCountRu), 402)
         ELSE Matched(wordForms(w, w, <<<<"o","j">>, <<"o","j">>, <<"u">>, <<"o","j">>, <<"o","j">>>>, 1, CaseCountRu), 403)
    ELSE IF Last(w, 1, 0) = <<"ya">>
    THEN Matched(wordForms(w, w, <<<<"o","j">>, <<"o","j">>, <<"u","yu">>, <<"o","j">>, <<"o","j">>>>, 2, CaseCountRu), 404)
    ELSE NoMatch

\* The methods <gender>Rule<ruleID> the Russian class defines
RuRules == [man |-> 1..8, woman |-> 1..4]

RuRule(gender, ruleID, w) ==
    IF gender = "man"
    THEN CASE ruleID = 1 -> RuManRule1(w)
           [] ruleID = 2 -> RuManRule2(w)
           [] ruleID = 3 -> RuManRule3(w)
           [] ruleID = 4 -> RuManRule4(w)
           [] ruleID = 5 -> RuManRule5(w)
           [] ruleID = 6 -> RuManRule6(w)
           [] ruleID = 7 -> RuManRule7(w)
           [] ruleID = 8 -> RuManRule8(w)
    ELSE CASE ruleID = 1 -> RuWomanRule1(w)
           [] ruleID = 2 -> RuWomanRule2(w)
           [] ruleID = 3 -> RuWomanRule3(w)
           [] ruleID = 4 -> RuWomanRule4(w)

\* ------------------------------------------------------------------------
\* NCLNameCaseUa: declension rules
\* ------------------------------------------------------------------------

UaVowels == <<"a","e","y","o","u","i","yi","ye","yu","ya">>

UaConsonant == <<"b","v","g","d","zh","z","j","k","l","m","n","p","r","s","t","f","h","c","ch","sh","shch">>

UaShyplyachi == <<"zh","ch","sh","shch">>

UaNeshyplyachi == <<"b","v","g","d","z","k","l","m","n","p","r","s","t","f","h","c">>

UaMyaki == <<"ss","yu","ya","ye","yi">>

UaGubni == <<"m","v","p","b","f">>

\* inverseGKH: г к х -> з ц с
inverseGKH(letter) ==
    CASE letter = <<"g">> -> <<"z">>
      [] letter = <<"k">> -> <<"c">>
      [] letter = <<"h">> -> <<"s">>
      [] OTHER -> letter

\* isApostrof
isApostrof(char) == ~In(char, <<" ">> \o UaConsonant \o UaVowels)

\* inverse2: к г -> ч ж
inverse2(letter) ==
    CASE letter = <<"k">> -> <<"ch">>
      [] letter = <<"g">> -> <<"zh">>
      [] OTHER -> letter

\* getOsnova: cut the word until its last letter is neither a vowel nor "ь"
RECURSIVE getOsnova(_)
getOsnova(word) ==
    IF In(substr(word, -1, 1), UaVowels \o <<"ss">>)
    THEN getOsnova(substr(word, 0, Len(word) - 1))
    ELSE word

\* detect2Group: 1 - solid, 2 - mixed, 3 - soft
detect2Group(word) ==
    LET osnova    == getOsnova(word)
        \* the stack holds the letters cut off, the last one pushed on top
        LastOnStack == IF Len(osnova) < Len(word) THEN <<word[Len(osnova) + 1]>> ELSE <<"Zlat">>
        osnovaEnd == substr(osnova, -1, 1)
    IN  IF In(osnovaEnd, UaNeshyplyachi) /\ ~In(LastOnStack, UaMyaki) THEN 1
        ELSE IF In(osnovaEnd, UaShyplyachi) /\ ~In(LastOnStack, UaMyaki) THEN 2
        ELSE 3

\* FirstLastVowel: the last letter of word, its first letter excluded, that is
\* in vowels; undefined (here the empty string) when there is none
FirstLastVowel(word, vowels) ==
    LET hits == {i \in 2..Len(word) : In(<<word[i]>>, vowels)}
    IN  IF hits = {} THEN <<>>
        ELSE <<word[CHOOSE i \in hits : \A j \in hits : j <= i]>>

UaManRule1(w) ==
    LET BeforeLast    == Last(w, 2, 1)
        invBeforeLast == inverseGKH(BeforeLast)
    IN  IF Last(w, 1, 0) = <<"a">>
        THEN Matched(wordForms(w, w, <<BeforeLast \o <<"y">>, invBeforeLast \o <<"i">>, BeforeLast \o <<"u">>,
                                       BeforeLast \o <<"o","yu">>, invBeforeLast \o <<"i">>, BeforeLast \o <<"o">>>>,
                               2, CaseCountUa), 101)
        ELSE IF Last(w, 1, 0) = <<"ya">>
        THEN IF BeforeLast = <<"i">>
             THEN Matched(wordForms(w, w, <<<<"yi">>, <<"yi">>, <<"yu">>, <<"ye","yu">>, <<"yi">>, <<"ye">>>>, 1, CaseCountUa), 102)
             ELSE Matched(wordForms(w, w, <<BeforeLast \o <<"i">>, invBeforeLast \o <<"i">>, BeforeLast \o <<"yu">>,
                                            BeforeLast \o <<"e","yu">>, invBeforeLast \o <<"i">>, BeforeLast \o <<"e">>>>,
                                    2, CaseCountUa), 103)
        ELSE NoMatch

UaManRule2(w) ==
    IF Last(w, 1, 0) = <<"r">>
    THEN IF inNames(w, {<<"I","g","o","r">>, <<"L","a","z","a","r">>})
         THEN Matched(wordForms(w, w, <<<<"ya">>, <<"e","v","i">>, <<"ya">>, <<"e","m">>, <<"e","v","i">>, <<"e">>>>, 0, CaseCountUa), 201)
         ELSE LET osnova == IF substr(w, -2, 1) = <<"i">>
                            THEN substr(w, 0, Len(w) - 2) \o <<"o">> \o substr(w, -1, 1)
                            ELSE w
              IN  Matched(wordForms(w, osnova, <<<<"a">>, <<"o","v","i">>, <<"a">>, <<"o","m">>, <<"o","v","i">>, <<"e">>>>, 0, CaseCountUa), 202)
    ELSE NoMatch

\* manRule3: the vowel alternation of the stem, "і" becoming "о"
manRule3Alternation(w, osnova, osLast) ==
    IF /\ osLast # <<"j">>
       /\ substr(osnova, -2, 1) = <<"i">>
       /\ ~InList(substr(strtolower(osnova), -4, 4), {<<"s","v","i","t">>, <<"c","v","i","t">>})
       /\ ~inNames(w, {<<"G","l","i","b">>})
       /\ ~InList(Last(w, 2, 0), {<<"i","k">>, <<"i","ch">>})
    THEN substr(osnova, 0, Len(osnova) - 2) \o <<"o">> \o substr(osnova, -1, 1)
    ELSE osnova

\* manRule3: the loss of "е" in words like "Орел"
manRule3LossOfE(w, osnova) ==
    IF /\ substr(osnova, 0, 1) = <<"o">>
       /\ FirstLastVowel(osnova, UaVowels \o <<"g","k">>) = <<"e">>
       /\ Last(w, 2, 0) # <<"s","ss">>
    THEN substr(osnova, 0, strrpos(osnova, "e"))
           \o substr(osnova, strrpos(osnova, "e") + 1, Len(osnova) - strrpos(osnova, "e"))
    ELSE osnova

\* manRule3: the forms by group, given the stem and its last letter
manRule3Groups(w, group, osnova, osLast, invOsLast) ==
    IF group = 1
    THEN IF Last(w, 2, 0) = <<"o","k">> /\ Last(w, 3, 0) # <<"o","o","k">>
         THEN Matched(wordForms(w, w, <<<<"k","a">>, <<"k","o","v","i">>, <<"k","a">>, <<"k","o","m">>, <<"k","o","v","i">>, <<"ch","e">>>>, 2, CaseCountUa), 301)
         ELSE IF InList(Last(w, 2, 0), {<<"o","v">>, <<"e","v">>, <<"ye","v">>}) /\ ~inNames(w, {<<"L","e","v">>, <<"O","s","t","r","o","m","o","v">>})
         THEN Matched(wordForms(w, osnova, <<osLast \o <<"a">>, osLast \o <<"u">>, osLast \o <<"a">>,
                                             osLast \o <<"y","m">>, osLast \o <<"u">>, invOsLast \o <<"e">>>>,
                                1, CaseCountUa), 302)
         ELSE IF InList(Last(w, 2, 0), {<<"i","n">>})
         THEN Matched(wordForms(w, w, <<<<"a">>, <<"u">>, <<"a">>, <<"o","m">>, <<"u">>, <<"e">>>>, 0, CaseCountUa), 303)
         ELSE Matched(wordForms(w, osnova, <<osLast \o <<"a">>, osLast \o <<"o","v","i">>, osLast \o <<"a">>,
                                             osLast \o <<"o","m">>, osLast \o <<"o","v","i">>, invOsLast \o <<"e">>>>,
                                1, CaseCountUa), 304)
    ELSE IF group = 2
    THEN Matched(wordForms(w, osnova, <<<<"a">>, <<"e","v","i">>, <<"a">>, <<"e","m">>, <<"e","v","i">>, <<"e">>>>, 0, CaseCountUa), 305)
    ELSE IF Last(w, 2, 0) = <<"e","j">> /\ In(Last(w, 3, 1), UaGubni)
         THEN Matched(wordForms(w, substr(w, 0, Len(w) - 2) \o <<"'">>,
                                <<<<"ya">>, <<"ye","v","i">>, <<"ya">>, <<"ye","m">>, <<"ye","v","i">>, <<"yu">>>>, 0, CaseCountUa), 306)
         ELSE IF Last(w, 1, 0) = <<"j">> \/ Last(w, 2, 1) = <<"i">>
         THEN Matched(wordForms(w, w, <<<<"ya">>, <<"ye","v","i">>, <<"ya">>, <<"ye","m">>, <<"ye","v","i">>, <<"yu">>>>, 1, CaseCountUa), 307)
         ELSE IF w = <<"sh","v","e","c","ss">>
         THEN Matched(wordForms(w, w, <<<<"e","v","c","ya">>, <<"e","v","c","e","v","i">>, <<"e","v","c","ya">>, <<"e","v","c","e","m">>, <<"e","v","c","e","v","i">>, <<"e","v","c","yu">>>>,
                                4, CaseCountUa), 308)
         ELSE IF Last(w, 3, 0) = <<"e","c","ss">>
         THEN Matched(wordForms(w, w, <<<<"c","ya">>, <<"c","e","v","i">>, <<"c","ya">>, <<"c","e","m">>, <<"c","e","v","i">>, <<"c","yu">>>>, 3, CaseCountUa), 309)
         ELSE IF InList(Last(w, 3, 0), {<<"ye","c","ss">>, <<"ya","c","ss">>})
         THEN Matched(wordForms(w, w, <<<<"j","c","ya">>, <<"j","c","e","v","i">>, <<"j","c","ya">>, <<"j","c","e","m">>, <<"j","c","e","v","i">>, <<"j","c","yu">>>>,
                                3, CaseCountUa), 310)
         ELSE Matched(wordForms(w, osnova, <<<<"ya">>, <<"e","v","i">>, <<"ya">>, <<"e","m">>, <<"e","v","i">>, <<"yu">>>>, 0, CaseCountUa), 311)

\* manRule3, from the stem osnova = getOsnova(workingWord) on
manRule3Stem(w, osnova) ==
    manRule3Groups(w, detect2Group(w),
                   manRule3LossOfE(w, manRule3Alternation(w, osnova, substr(osnova, -1, 1))),
                   substr(osnova, -1, 1), inverse2(substr(osnova, -1, 1)))

UaManRule3(w) ==
    IF In(Last(w, 1, 0), UaConsonant \o <<"o","ss">>) THEN manRule3Stem(w, getOsnova(w)) ELSE NoMatch

UaManRule4(w) ==
    IF Last(w, 1, 0) = <<"i">>
    THEN Matched(wordForms(w, w, <<<<"y","h">>, <<"y","m">>, <<"y","h">>, <<"y","m","y">>, <<"y","h">>, <<"i">>>>, 1, CaseCountUa), 4)
    ELSE NoMatch

UaManRule5(w) ==
    IF InList(Last(w, 2, 0), {<<"y","j">>, <<"o","j">>})
    THEN Matched(wordForms(w, w, <<<<"o","g","o">>, <<"o","m","u">>, <<"o","g","o">>, <<"y","m">>, <<"o","m","u">>, <<"y","j">>>>, 2, CaseCountUa), 5)
    ELSE NoMatch

UaWomanRule1(w) ==
    LET BeforeLast    == Last(w, 2, 1)
        invBeforeLast == inverseGKH(BeforeLast)
    IN  IF Last(w, 4, 0) = <<"n","i","g","a">>
        THEN Matched(wordForms(w, substr(w, 0, Len(w) - 3) \o <<"o">>,
                               <<<<"g","y">>, <<"z","i">>, <<"g","u">>, <<"g","o","yu">>, <<"z","i">>, <<"g","o">>>>, 0, CaseCountUa), 101)
        ELSE IF Last(w, 1, 0) = <<"a">>
        THEN Matched(wordForms(w, w, <<BeforeLast \o <<"y">>, invBeforeLast \o <<"i">>, BeforeLast \o <<"u">>,
                                       BeforeLast \o <<"o","yu">>, invBeforeLast \o <<"i">>, BeforeLast \o <<"o">>>>,
                               2, CaseCountUa), 102)
        ELSE IF Last(w, 1, 0) = <<"ya">>
        THEN IF In(BeforeLast, UaVowels) \/ isApostrof(BeforeLast)
             THEN Matched(wordForms(w, w, <<<<"yi">>, <<"yi">>, <<"yu">>, <<"ye","yu">>, <<"yi">>, <<"ye">>>>, 1, CaseCountUa), 103)
             ELSE Matched(wordForms(w, w, <<BeforeLast \o <<"i">>, invBeforeLast \o <<"i">>, BeforeLast \o <<"yu">>,
                                            BeforeLast \o <<"e","yu">>, invBeforeLast \o <<"i">>, BeforeLast \o <<"e">>>>,
                                    2, CaseCountUa), 104)
        ELSE NoMatch

UaWomanRule2(w) ==
    LET osnova       == getOsnova(w)
        osLast       == substr(osnova, -1, 1)
        osBeforeLast == substr(osnova, -2, 1)
        apostrof     == IF In(osLast, <<"m","v","p","b","f">>) /\ In(osBeforeLast, UaVowels) THEN <<"'">> ELSE <<>>
        duplicate    == IF In(osLast, <<"d","t","z","s","c","l","n">>) THEN osLast ELSE <<>>
    IN  IF In(Last(w, 1, 0), UaConsonant \o <<"ss">>)
        THEN IF Last(w, 1, 0) = <<"ss">>
             THEN Matched(wordForms(w, osnova, <<<<"i">>, <<"i">>, <<"ss">>, duplicate \o apostrof \o <<"yu">>, <<"i">>, <<"e">>>>,
                                    0, CaseCountUa), 201)
             ELSE Matched(wordForms(w, osnova, <<<<"i">>, <<"i">>, <<>>, duplicate \o apostrof \o <<"yu">>, <<"i">>, <<"e">>>>,
                                    0, CaseCountUa), 202)
        ELSE NoMatch

UaWomanRule3(w) ==
    LET BeforeLast == Last(w, 2, 1)
    IN  IF Last(w, 2, 0) = <<"a","ya">>
        THEN Matched(wordForms(w, w, <<<<"o","yi">>, <<"i","j">>, <<"u","yu">>, <<"o","yu">>, <<"i","j">>, <<"a","ya">>>>, 2, CaseCountUa), 301)
        ELSE IF Last(w, 1, 0) = <<"a">> /\ (In(Last(w, 2, 1), <<"ch","n","v">>) \/ InList(Last(w, 3, 2), {<<"ss","k">>}))
        THEN Matched(wordForms(w, w, <<BeforeLast \o <<"o","yi">>, BeforeLast \o <<"i","j">>, BeforeLast \o <<"u">>,
                                       BeforeLast \o <<"o","yu">>, BeforeLast \o <<"i","j">>, BeforeLast \o <<"o">>>>,
                               2, CaseCountUa), 302)
        ELSE NoMatch

\* The methods <gender>Rule<ruleID> the Ukrainian class defines
UaRules == [man |-> 1..5, woman |-> 1..3]

UaRule(gender, ruleID, w) ==
    IF gender = "man"
    THEN CASE ruleID = 1 -> UaManRule1(w)
           [] ruleID = 2 -> UaManRule2(w)
           [] ruleID = 3 -> UaManRule3(w)
           [] ruleID = 4 -> UaManRule4(w)
           [] ruleID = 5 -> UaManRule5(w)
    ELSE CASE ruleID = 1 -> UaWomanRule1(w)
           [] ruleID = 2 -> UaWomanRule2(w)
           [] ruleID = 3 -> UaWomanRule3(w)

\* ------------------------------------------------------------------------
\* NCLNameCaseCore.RulesChain and the <gender><Part>Name methods
\* ------------------------------------------------------------------------

ruleMethods(lang) == IF lang = "ru" THEN RuRules ELSE UaRules

ruleMethod(lang, gender, ruleID, w) ==
    IF lang = "ru" THEN RuRule(gender, ruleID, w) ELSE UaRule(gender, ruleID, w)

\* A RulesChain that tries the rules from the last one to the first one
RECURSIVE RulesChainBackwards(_, _, _, _)
RulesChainBackwards(lang, gender, rulesArray, w) ==
    IF rulesArray = <<>> THEN NoMatch
    ELSE IF ruleMethod(lang, gender, rulesArray[Len(rulesArray)], w).ok
    THEN ruleMethod(lang, gender, rulesArray[Len(rulesArray)], w)
    ELSE RulesChainBackwards(lang, gender, SubSeq(rulesArray, 1, Len(rulesArray) - 1), w)

\* RulesChain(gender, rulesArray): the first rule that applies wins; a rule id
\* the class has no method for throws Error; an error of a rule propagates
RECURSIVE RulesChain(_, _, _, _), RulesChainNext(_, _, _, _, _)
RulesChain(lang, gender, rulesArray, w) ==
    IF rulesArray = <<>> THEN NoMatch
    ELSE IF Head(rulesArray) \notin ruleMethods(lang)[gender] THEN Threw("Error")
    ELSE RulesChainNext(lang, gender, rulesArray, w, ruleMethod(lang, gender, Head(rulesArray), w))

\* RulesChain, after the rule at the head of rulesArray has returned r
RulesChainNext(lang, gender, rulesArray, w, r) ==
    IF r.ok \/ r.err # "none" THEN r ELSE RulesChain(lang, gender, Tail(rulesArray), w)

RuManFirstName(w) ==
    IF inNames(w, {<<"S","t","a","r","sh","y","j">>, <<"M","l","a","d","sh","y","j">>})
    THEN Matched(wordForms(w, w, <<<<"e","g","o">>, <<"e","m","u">>, <<"e","g","o">>, <<"y","m">>, <<"e","m">>>>, 2, CaseCountRu), 0)
    ELSE IF inNames(w, {<<"M","a","r","y","a">>})
    THEN Matched(wordForms(w, w, <<<<"y">>, <<"y">>, <<"yu">>, <<"e","j">>, <<"y","y">>>>, 1, CaseCountRu), 0)
    ELSE ReturnRulesChain("man", <<1, 2, 3>>)

RuWomanFirstName(w) == ReturnRulesChain("woman", <<1, 2, 3>>)

RuManSecondName(w) == ReturnRulesChain("man", <<8, 4, 5, 6, 7>>)

RuWomanSecondName(w) == ReturnRulesChain("woman", <<4>>)

RuManFatherName(w) ==
    IF inNames(w, {<<"Y","l","ss","y","ch">>})
    THEN Matched(wordForms(w, w, <<<<"a">>, <<"u">>, <<"a">>, <<"o","m">>, <<"e">>>>, 0, CaseCountRu), 0)
    ELSE IF Last(w, 2, 0) = <<"y","ch">>
    THEN Matched(wordForms(w, w, <<<<"a">>, <<"u">>, <<"a">>, <<"e","m">>, <<"e">>>>, 0, CaseCountRu), 0)
    ELSE NoMatch

RuWomanFatherName(w) ==
    IF Last(w, 2, 0) = <<"n","a">>
    THEN Matched(wordForms(w, w, <<<<"yy">>, <<"e">>, <<"u">>, <<"o","j">>, <<"e">>>>, 1, CaseCountRu), 0)
    ELSE NoMatch

UaManFirstName(w) == ReturnRulesChain("man", <<1, 2, 3>>)

UaWomanFirstName(w) == ReturnRulesChain("woman", <<1, 2>>)

UaManSecondName(w) == ReturnRulesChain("man", <<5, 1, 2, 3, 4>>)

UaWomanSecondName(w) == ReturnRulesChain("woman", <<3, 1>>)

UaManFatherName(w) ==
    IF InList(Last(w, 2, 0), {<<"y","ch">>, <<"i","ch">>})
    THEN Matched(wordForms(w, w, <<<<"a">>, <<"u">>, <<"a">>, <<"e","m">>, <<"u">>, <<"u">>>>, 0, CaseCountUa), 0)
    ELSE NoMatch

UaWomanFatherName(w) ==
    IF InList(Last(w, 3, 0), {<<"v","n","a">>})
    THEN Matched(wordForms(w, w, <<<<"y">>, <<"i">>, <<"u">>, <<"o","yu">>, <<"i">>, <<"o">>>>, 1, CaseCountUa), 0)
    ELSE NoMatch

\* The method gender + namepart + 'Name' of the class; with a name part that
\* is none of N, S, F no such method exists: Error
namePartMethod(lang, gender, namePart, w) ==
    IF lang = "ru"
    THEN CASE gender = "man" /\ namePart = "N" -> RuManFirstName(w)
           [] gender = "man" /\ namePart = "S" -> RuManSecondName(w)
           [] gender = "man" /\ namePart = "F" -> RuManFatherName(w)
           [] gender = "woman" /\ namePart = "N" -> RuWomanFirstName(w)
           [] gender = "woman" /\ namePart = "S" -> RuWomanSecondName(w)
           [] gender = "woman" /\ namePart = "F" -> RuWomanFatherName(w)
           [] OTHER -> Threw("Error")
    ELSE CASE gender = "man" /\ namePart = "N" -> UaManFirstName(w)
           [] gender = "man" /\ namePart = "S" -> UaManSecondName(w)
           [] gender = "man" /\ namePart = "F" -> UaManFatherName(w)
           [] gender = "woman" /\ namePart = "N" -> UaWomanFirstName(w)
           [] gender = "woman" /\ namePart = "S" -> UaWomanSecondName(w)
           [] gender = "woman" /\ namePart = "F" -> UaWomanFatherName(w)
           [] OTHER -> Threw("Error")

\* A method's result, its rule chain run when it ends in one
runRulesChain(lang, w, m) ==
    IF m.chain # <<>> THEN RulesChain(lang, m.chain[1], m.chain[2], w) ELSE m

\* this[method](): the call of the method of a name part on working word w
nameMethod(lang, gender, namePart, w) == runRulesChain(lang, w, namePartMethod(lang, gender, namePart, w))

\* ------------------------------------------------------------------------
\* Gender scores. The code adds decimal weights (0.01 .. 30); the model keeps
\* them as integers in hundredths.
\* ------------------------------------------------------------------------

Weight(cond, hundredths) == IF cond THEN hundredths ELSE 0

RuGenderByFirstName(rec) ==
    LET w     == rec.word
        man   == Weight(Last(w, 1, 0) = <<"j">>, 90)
                 + Weight(InList(Last(w, 2, 0), {<<"o","n">>, <<"o","v">>, <<"a","v">>, <<"a","m">>, <<"o","l">>, <<"a","n">>, <<"r","d">>, <<"m","p">>,
                                                 <<"p","o">>, <<"d","o">>, <<"d","r">>, <<"r","t">>}), 30)
                 + Weight(In(Last(w, 1, 0), RuConsonant), 1)
                 + Weight(Last(w, 1, 0) = <<"ss">>, 2)
                 + Weight(InList(Last(w, 2, 0), {<<"t","o">>, <<"m","a">>}), 1)
                 + Weight(InList(Last(w, 3, 0), {<<"l","ss","ya">>, <<"v","v","a">>, <<"o","k","a">>, <<"u","k","a">>, <<"y","t","a">>, <<"eh","l","ss">>, <<"r","e","a">>}), 20)
                 + Weight(inNames(w, RuNamesMan), 1000)
        woman == Weight(InList(Last(w, 2, 0), {<<"v","ss">>, <<"f","ss">>, <<"l","ss">>, <<"n","a">>}), 10)
                 + Weight(InList(Last(w, 2, 0), {<<"l","a">>}), 4)
                 + Weight(InList(Last(w, 3, 0), {<<"y","m","a">>}), 15)
                 + Weight(InList(Last(w, 3, 0), {<<"l","y","ya">>, <<"n","y","ya">>, <<"s","y","ya">>, <<"d","r","a">>, <<"l","l","a">>, <<"k","l","a">>, <<"o","p","a">>, <<"v","y","ya">>}), 50)
                 + Weight(InList(Last(w, 4, 0), {<<"l","ss","d","a">>, <<"f","y","r","a">>, <<"n","y","n","a">>, <<"l","y","t","a">>, <<"a","l","ss","ya">>}), 50)
                 + Weight(inNames(w, {<<"B","r","y","d","zh","e","t">>, <<"EH","l","y","z","a","b","e","t">>, <<"M","a","r","g","a","r","e","t">>, <<"D","zh","a","n","e","t">>, <<"ZH","a","k","l","y","n">>, <<"EH","v","e","l","y","n">>}), 1000)
                 + Weight(inNames(w, {<<"B","e","r","y","l">>}), 5)
    IN  [rec EXCEPT !.genderMan = man, !.genderWoman = woman]

RuGenderBySecondName(rec) ==
    LET w     == rec.word
        man   == Weight(InList(Last(w, 2, 0), {<<"o","v">>, <<"y","n">>, <<"e","v">>, <<"y","j">>, <<"yo","v">>, <<"yy","j">>, <<"yy","n">>, <<"o","j">>}), 40)
        woman == Weight(InList(Last(w, 3, 0), {<<"o","v","a">>, <<"y","n","a">>, <<"e","v","a">>, <<"yo","v","a">>, <<"yy","n","a">>, <<"m","y","n">>}), 40)
                 + Weight(InList(Last(w, 2, 0), {<<"a","ya">>}), 40)
    IN  [rec EXCEPT !.genderMan = man, !.genderWoman = woman]

RuGenderByFatherName(rec) ==
    LET w  == rec.word
        r1 == IF Last(w, 2, 0) = <<"y","ch">>
              THEN [rec EXCEPT !.genderMan = 1000, !.genderWoman = 0] ELSE rec
    IN  IF Last(w, 2, 0) = <<"n","a">>
        THEN [r1 EXCEPT !.genderMan = 0, !.genderWoman = 1200] ELSE r1

UaGenderByFirstName(rec) ==
    LET w     == rec.word
        man   == Weight(Last(w, 1, 0) = <<"j">>, 90)
                 + Weight(inNames(w, {<<"P","e","t","r","o">>, <<"M","y","k","o","l","a">>}), 3000)
                 + Weight(InList(Last(w, 2, 0), {<<"o","n">>, <<"o","v">>, <<"a","v">>, <<"a","m">>, <<"o","l">>, <<"a","n">>, <<"r","d">>, <<"m","p">>,
                                                 <<"k","o">>, <<"l","o">>}), 50)
                 + Weight(In(Last(w, 1, 0), UaConsonant), 1)
                 + Weight(Last(w, 1, 0) = <<"ss">>, 2)
        woman == Weight(InList(Last(w, 3, 0), {<<"b","o","v">>, <<"n","k","a">>, <<"ya","r","a">>, <<"y","l","a">>, <<"o","p","a">>}), 50)
                 + Weight(InList(Last(w, 2, 0), {<<"d","ss">>}), 10)
                 + Weight(InList(Last(w, 3, 0), {<<"e","l","ss">>, <<"b","o","v">>}), 40)
    IN  [rec EXCEPT !.genderMan = man, !.genderWoman = woman]

UaGenderBySecondName(rec) ==
    LET w     == rec.word
        man   == Weight(InList(Last(w, 2, 0), {<<"o","v">>, <<"y","n">>, <<"e","v">>, <<"ye","v">>, <<"i","n">>, <<"yi","n">>, <<"y","j">>, <<"yi","v">>,
                                                 <<"i","v">>, <<"o","j">>, <<"e","j">>}), 40)
        woman == Weight(InList(Last(w, 3, 0), {<<"o","v","a">>, <<"y","n","a">>, <<"e","v","a">>, <<"ye","v","a">>, <<"i","n","a">>, <<"m","i","n">>}), 40)
                 + Weight(InList(Last(w, 2, 0), {<<"a","ya">>}), 40)
    IN  [rec EXCEPT !.genderMan = man, !.genderWoman = woman]

UaGenderByFatherName(rec) ==
    LET w  == rec.word
        r1 == IF Last(w, 2, 0) = <<"y","ch">>
              THEN [rec EXCEPT !.genderMan = 1000, !.genderWoman = 0] ELSE rec
    IN  IF Last(w, 2, 0) = <<"n","a">>
        THEN [r1 EXCEPT !.genderMan = 0, !.genderWoman = 1200] ELSE r1

\* prepareGender: an unsolved word is scored by the method of its name part
prepareGender(lang, rec) ==
    IF rec.genderSolved # 0 THEN rec
    ELSE IF lang = "ru"
    THEN CASE rec.namePart = "N" -> RuGenderByFirstName(rec)
           [] rec.namePart = "F" -> RuGenderByFatherName(rec)
           [] rec.namePart = "S" -> RuGenderBySecondName(rec)
           [] OTHER -> rec
    ELSE CASE rec.namePart = "N" -> UaGenderByFirstName(rec)
           [] rec.namePart = "F" -> UaGenderByFatherName(rec)
           [] rec.namePart = "S" -> UaGenderBySecondName(rec)
           [] OTHER -> rec

\* ------------------------------------------------------------------------
\* NCLNameCaseRu.detectNamePart (weights in hundredths)
\* ------------------------------------------------------------------------

RuSplitSecondExclude ==
    {<<<<"a">>, <<"v","z","j","k","m","n","p","r","s","t","f","ya">>>>, <<<<"b">>, <<"a">>>>, <<<<"v">>, <<"a","ss">>>>, <<<<"g">>, <<"a">>>>, <<<<"d">>, <<"a","r">>>>,
     <<<<"e">>, <<"b","v","g","d","j","l","m","n","ya">>>>, <<<<"yo">>, <<"b","v","g","d","j","l","m","n","ya">>>>, <<<<"zh">>, <<>>>>, <<<<"z">>, <<"a">>>>,
     <<<<"y">>, <<"g","d","j","k","l","m","n","o","p","r","s","f","ya">>>>, <<<<"j">>, <<"l","ya">>>>, <<<<"k">>, <<"a","s","t">>>>, <<<<"l">>, <<"a","y","l","o","ss","ya">>>>,
     <<<<"m">>, <<"a","y","p">>>>, <<<<"n">>, <<"a","t">>>>, <<<<"o">>, <<"v","d","l","n","p","r","ya">>>>, <<<<"p">>, <<"p">>>>, <<<<"r">>, <<"a","d","y","k","p","t","ss">>>>,
     <<<<"s">>, <<"a","t","u","ya">>>>, <<<<"t">>, <<"a","o","r">>>>, <<<<"u">>, <<"d","m","r">>>>, <<<<"f">>, <<"a","ss">>>>, <<<<"h">>, <<"a">>>>,
     <<<<"c">>, <<"a">>>>, <<<<"ch">>, <<>>>>, <<<<"sh">>, <<"a">>>>, <<<<"shch">>, <<>>>>, <<<<"hs">>, <<>>>>, <<<<"yy">>, <<"d","n">>>>,
     <<<<"ss">>, <<"ya">>>>, <<<<"eh">>, <<>>>>, <<<<"yu">>, <<>>>>, <<<<"ya">>, <<"n","s">>>>}

\* this.splitSecondExclude[key]: the empty string stands for a missing or empty entry
splitSecondExclude(key) ==
    IF \E p \in RuSplitSecondExclude : p[1] = key
    THEN (CHOOSE p \in RuSplitSecondExclude : p[1] = key)[2]
    ELSE <<>>

RuDetectFirst(w) ==
    Weight(InList(Last(w, 2, 0), {<<"sh","a">>}), 50)
    + Weight(InList(Last(w, 3, 0), {<<"eh","l","ss">>}), 50)
    + Weight(In(Last(w, 1, 0), <<"e","yo","zh","h","c","o","ch","sh","shch","hs","yy","eh","yu">>) /\ inNames(w, {<<"M","a","u","r","y","c">>}), 1000)
    + Weight(Last(w, 1, 0) = <<"ya">> /\ In(Last(w, 3, 1), RuVowels), 50)
    + Weight(Last(w, 1, 0) = <<"ss">> /\ Last(w, 3, 2) = <<"e","l">>, 70)
    + Weight(Last(w, 1, 0) = <<"ss">> /\ Last(w, 3, 2) # <<"e","l">> /\ inNames(w, {<<"L","a","z","a","r","ss">>, <<"Y","g","o","r","ss">>, <<"L","yu","b","o","v","ss">>}), 1000)
    + Weight(Last(w, 3, 0) = <<"t","y","n">> /\ In(Last(w, 4, 1), <<"n","s","t">>), 50)
    + Weight(inNames(w, {<<"L","e","v">>, <<"YA","k","o","v">>, <<"V","o","v","a">>, <<"M","a","sh","a">>, <<"O","l","ss","g","a">>, <<"E","r","e","m","e","j">>, <<"Y","s","a","k">>, <<"Y","s","a","a","k">>, <<"E","v","a">>,
                         <<"Y","r","y","n","a">>, <<"EH","l","ss","k","y","n">>, <<"M","e","r","l","y","n">>, <<"M","a","k","s">>, <<"A","l","e","k","s">>, <<"M","a","r","y","a">>, <<"B","r","y","d","zh","e","t">>,
                         <<"EH","l","y","z","a","b","e","t">>, <<"M","a","r","g","a","r","e","t">>, <<"D","zh","a","n","e","t">>, <<"ZH","a","k","l","y","n">>, <<"EH","v","e","l","y","n">>})
             \/ inNames(w, RuNamesMan), 1000)
    + Weight(Last(w, 2, 0) = <<"y","k">> /\ In(Last(w, 3, 1), <<"l","sh","h","d">>), 30)
    + Weight(Last(w, 3, 0) = <<"y","n","a">> /\ InList(Last(w, 7, 0), {<<"a","t","e","r","y","n","a">>, <<"r","y","s","t","y","n","a">>}), 1000)
    + Weight(Last(w, 3, 0) = <<"y","n","a">> /\ ~InList(Last(w, 7, 0), {<<"a","t","e","r","y","n","a">>, <<"r","y","s","t","y","n","a">>})
             /\ inNames(w, {<<"M","a","l","ss","v","y","n","a">>, <<"A","n","t","o","n","y","n","a">>, <<"A","l","ss","b","y","n","a">>, <<"A","g","r","y","p","p","y","n","a">>, <<"F","a","y","n","a">>, <<"K","a","r","y","n","a">>,
                            <<"M","a","r","y","n","a">>, <<"V","a","l","e","n","t","y","n","a">>, <<"K","a","l","y","n","a">>, <<"A","d","e","l","y","n","a">>, <<"A","l","y","n","a">>, <<"A","n","g","e","l","y","n","a">>,
                            <<"G","a","l","y","n","a">>, <<"K","a","r","o","l","y","n","a">>, <<"P","a","v","l","y","n","a">>, <<"P","o","l","y","n","a">>, <<"EH","l","y","n","a">>, <<"M","y","n","a">>, <<"N","y","n","a">>,
                            <<"D","y","n","a">>}), 1000)
    + Weight(Last(w, 4, 0) = <<"o","l","a","j">>, 60)

RuDetectSecondIna(w) ==
    /\ Last(w, 3, 0) = <<"y","n","a">>
    /\ ~InList(Last(w, 7, 0), {<<"a","t","e","r","y","n","a">>, <<"r","y","s","t","y","n","a">>})
    /\ ~inNames(w, {<<"M","a","l","ss","v","y","n","a">>, <<"A","n","t","o","n","y","n","a">>, <<"A","l","ss","b","y","n","a">>, <<"A","g","r","y","p","p","y","n","a">>, <<"F","a","y","n","a">>, <<"K","a","r","y","n","a">>, <<"M","a","r","y","n","a">>,
                    <<"V","a","l","e","n","t","y","n","a">>, <<"K","a","l","y","n","a">>, <<"A","d","e","l","y","n","a">>, <<"A","l","y","n","a">>, <<"A","n","g","e","l","y","n","a">>, <<"G","a","l","y","n","a">>, <<"K","a","r","o","l","y","n","a">>,
                    <<"P","a","v","l","y","n","a">>, <<"P","o","l","y","n","a">>, <<"EH","l","y","n","a">>, <<"M","y","n","a">>, <<"N","y","n","a">>, <<"D","y","n","a">>})

RuDetectSecond(w) ==
    Weight(In(Last(w, 1, 0), <<"e","yo","zh","h","c","o","ch","sh","shch","hs","yy","eh","yu">>) /\ ~inNames(w, {<<"M","a","u","r","y","c">>}), 30)
    + Weight(splitSecondExclude(Last(w, 2, 1)) # <<>>
             /\ ~In(Last(w, 1, 0), splitSecondExclude(Last(w, 2, 1))), 40)
    + Weight(In(Last(w, 2, 1), <<"zh","ch","shch","hs","eh","yu">>), 30)
    + Weight(Last(w, 1, 0) = <<"ss">> /\ Last(w, 3, 2) # <<"e","l">>
             /\ ~inNames(w, {<<"L","a","z","a","r","ss">>, <<"Y","g","o","r","ss">>, <<"L","yu","b","o","v","ss">>}), 30)
    + Weight(Last(w, 1, 0) # <<"ss">>
             /\ In(Last(w, 1, 0), RuConsonant \o <<"ss">>) /\ In(Last(w, 2, 1), RuConsonant \o <<"ss">>)
             /\ ~InList(Last(w, 2, 0), {<<"d","r">>, <<"k","t">>, <<"l","l">>, <<"p","p">>, <<"r","d">>, <<"r","k">>, <<"r","p">>, <<"r","t">>, <<"t","r">>}), 25)
    + Weight(Last(w, 2, 0) = <<"l","y">> /\ Last(w, 3, 1) # <<"a">>, 40)
    + Weight(Last(w, 2, 0) = <<"ya","n">> /\ Len(w) > 2 /\ ~In(Last(w, 3, 1), <<"ss","y">>), 40)
    + Weight(Last(w, 2, 0) = <<"u","r">> /\ ~inNames(w, {<<"A","r","t","u","r">>, <<"T","y","m","u","r">>}), 40)
    + Weight(Last(w, 2, 0) = <<"y","k">> /\ ~In(Last(w, 3, 1), <<"l","sh","h","d">>), 40)
    + Weight(RuDetectSecondIna(w), 40)
    + Weight(InList(Last(w, 2, 0), {<<"o","v">>, <<"y","n">>, <<"e","v">>, <<"yo","v">>, <<"yy","j">>, <<"yy","n">>, <<"o","j">>, <<"u","k">>, <<"ya","k">>, <<"c","a">>, <<"u","n">>,
                                    <<"o","k">>, <<"a","ya">>, <<"yo","k">>, <<"y","v">>, <<"u","s">>, <<"a","k">>, <<"ya","r">>, <<"u","z">>, <<"a","h">>, <<"a","j">>}), 40)
    + Weight(InList(Last(w, 3, 0), {<<"o","v","a">>, <<"e","v","a">>, <<"yo","v","a">>, <<"yy","n","a">>, <<"sh","e","n">>, <<"m","e","j">>, <<"v","k","a">>, <<"sh","y","r">>, <<"b","a","n">>,
                                    <<"ch","y","j">>, <<"k","y","j">>, <<"b","e","j">>, <<"ch","a","n">>, <<"g","a","n">>, <<"k","y","m">>, <<"k","a","n">>, <<"m","a","r">>, <<"l","y","s">>}), 40)
    + Weight(InList(Last(w, 4, 0), {<<"sh","e","n","a">>}), 40)
    + Weight(inNames(w, {<<"d","a">>, <<"v","a","l","a","d","o","n">>, <<"D","a","n","b","a","r">>}), 1000)

RuDetectFather(w) == Weight(InList(Last(w, 3, 0), {<<"v","n","a">>, <<"ch","n","a">>, <<"v","y","ch">>, <<"ss","y","ch">>}), 300)

\* detectNamePart(word) of the Russian class: the name part it sets on the word
RuDetectNamePart(w) ==
    LET first  == RuDetectFirst(w)
        second == RuDetectSecond(w)
        father == RuDetectFather(w)
        max    == Max(first, Max(second, father))
    IN  IF first = max THEN "N"
        ELSE IF second = max THEN "S"
        ELSE "F"

\* ------------------------------------------------------------------------
\* NCLNameCaseUa.detectNamePart (weights in hundredths)
\* ------------------------------------------------------------------------

UaDetectFirst(w) ==
    Weight(InList(Last(w, 3, 0), {<<"t","y","n">>})
           \/ InList(Last(w, 4, 0), {<<"ss","m","y","ch">>, <<"yu","b","o","v">>, <<"i","v","n","a">>, <<"ya","v","k","a">>, <<"o","r","y","v">>, <<"k","i","ya","n">>}), 50)
    + Weight(inNames(w, {<<"L","e","v">>, <<"G","a","yi","n","a">>, <<"A","f","i","n","a">>, <<"A","n","t","o","n","i","n","a">>, <<"A","n","g","e","l","i","n","a">>, <<"A","l","ss","v","i","n","a">>, <<"A","l","ss","b","i","n","a">>,
                         <<"A","l","i","n","a">>, <<"P","a","v","l","o">>, <<"O","l","e","s","ss">>, <<"M","y","k","o","l","a">>, <<"M","a","ya">>, <<"A","n","g","l","e","l","i","n","a">>, <<"E","l","ss","k","i","n">>,
                         <<"M","e","r","l","i","n">>}), 1000)

UaDetectSecond(w) ==
    Weight(InList(Last(w, 2, 0),
                  {<<"o","v">>, <<"i","n">>, <<"e","v">>, <<"ye","v">>, <<"y","j">>, <<"y","n">>, <<"o","j">>, <<"k","o">>, <<"u","k">>, <<"ya","k">>, <<"c","a">>, <<"y","h">>, <<"y","k">>, <<"u","n">>,
                   <<"o","k">>, <<"sh","a">>, <<"a","ya">>, <<"g","a">>, <<"ye","k">>, <<"a","sh">>, <<"y","v">>, <<"yu","k">>, <<"u","s">>, <<"c","e">>, <<"a","k">>, <<"b","r">>, <<"ya","r">>, <<"i","l">>,
                   <<"i","v">>, <<"y","ch">>, <<"s","ss">>, <<"e","j">>, <<"n","s">>, <<"ya","s">>, <<"e","r">>, <<"a","j">>, <<"ya","n">>, <<"a","h">>, <<"c","ss">>, <<"yu","shch">>, <<"i","s">>, <<"a","ch">>,
                   <<"u","b">>, <<"o","h">>, <<"yu","h">>, <<"u","t">>, <<"ch","a">>, <<"u","l">>, <<"v","k">>, <<"z","ss">>, <<"u","c">>, <<"yi","n">>, <<"d","e">>, <<"u","z">>, <<"yu","r">>, <<"i","k">>,
                   <<"i","ch">>, <<"r","o">>}), 40)
    + Weight(InList(Last(w, 3, 0),
                    {<<"o","v","a">>, <<"e","v","a">>, <<"ye","v","a">>, <<"t","y","h">>, <<"r","y","k">>, <<"v","a","ch">>, <<"a","h","a">>, <<"sh","e","n">>, <<"m","e","j">>, <<"a","r","ss">>, <<"v","k","a">>, <<"sh","y","r">>,
                     <<"b","a","n">>, <<"ch","y","j">>, <<"i","n","a">>, <<"yi","n","a">>, <<"ss","k","a">>, <<"a","n","ss">>, <<"y","v","a">>, <<"a","l","ss">>, <<"u","r","a">>, <<"r","a","n">>, <<"a","l","o">>, <<"o","l","a">>,
                     <<"k","u","r">>, <<"o","b","a">>, <<"o","l","ss">>, <<"n","t","a">>, <<"z","i","j">>, <<"gg","a","n">>, <<"i","l","o">>, <<"sh","t","a">>, <<"yu","p","a">>, <<"r","n","a">>, <<"b","l","a">>, <<"e","yi","n">>,
                     <<"y","m","a">>, <<"m","a","r">>, <<"k","a","r">>, <<"o","h","a">>, <<"ch","u","r">>, <<"n","y","sh">>, <<"e","t","a">>, <<"t","n","a">>, <<"z","u","r">>, <<"n","i","r">>, <<"j","m","a">>, <<"o","r","zh">>,
                     <<"r","b","a">>, <<"i","l","a">>, <<"l","a","s">>, <<"d","i","d">>, <<"r","o","z">>, <<"a","b","a">>, <<"ch","a","n">>, <<"g","a","n">>}), 40)
    + Weight(InList(Last(w, 4, 0),
                    {<<"ss","n","y","k">>, <<"n","ch","u","k">>, <<"t","n","y","k">>, <<"k","y","r","ss">>, <<"s","k","y","j">>, <<"sh","e","n","a">>, <<"sh","y","n","a">>, <<"v","y","n","a">>, <<"n","y","n","a">>, <<"g","a","n","a">>,
                     <<"h","n","i","j">>, <<"z","yu","b","a">>, <<"o","r","o","sh">>, <<"o","r","o","n">>, <<"s","y","l","o">>, <<"r","u","b","a">>, <<"l","e","s","t">>, <<"m","a","r","a">>, <<"o","b","k","a">>, <<"r","o","k","a">>,
                     <<"s","y","k","a">>, <<"o","d","n","a">>, <<"n","ch","a","r">>, <<"v","a","t","a">>, <<"n","d","a","r">>, <<"g","r","i","j">>}), 40)
    + Weight(Last(w, 1, 0) = <<"i">>, 20)

UaDetectFather(w) ==
    Weight(InList(Last(w, 3, 0), {<<"v","n","a">>, <<"ch","n","a">>, <<"l","i","ch">>}) \/ InList(Last(w, 4, 0), {<<"ss","m","y","ch">>, <<"o","v","y","ch">>}), 300)

\* detectNamePart(word) of the Ukrainian class: the name part it sets on the word
UaDetectNamePart(w) ==
    LET first  == UaDetectFirst(w)
        second == UaDetectSecond(w)
        father == UaDetectFather(w)
        max    == Max(first, Max(second, father))
    IN  IF first = max THEN "N"
        ELSE IF second = max THEN "S"
        ELSE "F"

detectNamePart(lang, w) == IF lang = "ru" THEN RuDetectNamePart(w) ELSE UaDetectNamePart(w)

\* ------------------------------------------------------------------------
\* NCLNameCaseCore: the engine
\* ------------------------------------------------------------------------

VARIABLES
    lang,              \* the language class the engine was constructed from
    concreteClasses,   \* NCL._concreteClasses: the languages registered with NCL
    words,             \* this.words: the NCLNameCaseWord records
    index,             \* this.index: for each name part the keys of its words
    ready,             \* this.ready
    finished,          \* this.finished
    workingWord,       \* this.workingWord
    workingLastCache,  \* this.workingLastCache: entries <<length, stopAfter, value>>
    lastRule,          \* this.lastRule
    lastResult,        \* this.lastResult
    gender_koef,       \* this.gender_koef
    ret                \* the outcome of the last call: what it returned or threw

vars == <<lang, concreteClasses, words, index, ready, finished, workingWord,
          workingLastCache, lastRule, lastResult, gender_koef, ret>>

\* The engine object as one value; err is the error being thrown ("none" when
\* no error is thrown), val the value being returned.
This ==
    [lang |-> lang, concreteClasses |-> concreteClasses, words |-> words, index |-> index,
     ready |-> ready, finished |-> finished, workingWord |-> workingWord,
     workingLastCache |-> workingLastCache, lastRule |-> lastRule, lastResult |-> lastResult,
     gender_koef |-> gender_koef, err |-> "none",
     val |-> [kind |-> "undefined", str |-> <<>>, list |-> <<>>, num |-> 0]]

\* JavaScript values an operation returns
Undefined == [kind |-> "undefined", str |-> <<>>, list |-> <<>>, num |-> 0]

ThisValue == [Undefined EXCEPT !.kind = "this"]

StringValue(s) == [Undefined EXCEPT !.kind = "string", !.str = s]

ArrayValue(a) == [Undefined EXCEPT !.kind = "array", !.list = a]

NumberValue(n) == [Undefined EXCEPT !.kind = "number", !.num = n]

\* What undefined turns into when it is concatenated to a string
UndefinedText == <<"lat_u", "lat_n", "lat_d", "lat_e", "lat_f", "lat_i", "lat_n", "lat_e", "lat_d">>

\* A case number argument: <<>> is null, <<n>> the number n
Null == <<>>

Return(e, v) == [e EXCEPT !.val = v]

Throw(e, error) == [e EXCEPT !.err = error, !.val = Undefined]

\* The (length, stopAfter) pairs the rule, gender and name part methods look up
LastKeys == {<<1, 0>>, <<2, 0>>, <<3, 0>>, <<4, 0>>, <<7, 0>>, <<2, 1>>, <<3, 1>>, <<3, 2>>, <<4, 1>>}

\* The memo table after the methods have looked the working word up.  Which
\* of the keys a method asked for depends on the path it took; the table is
\* recorded with every key of LastKeys, each entry being the slice Last
\* computes for it.
LastCacheOf(w) == {<<k[1], k[2], LastSlice(w, k[1], k[2])>> : k \in LastKeys}

reset(e) == [e EXCEPT !.lastRule = 0, !.lastResult = <<>>]

notReady(e) == [e EXCEPT !.ready = FALSE, !.finished = FALSE]

\* A fullReset that keeps the words
fullResetKeepWords(e) == notReady(reset(e))

\* A fullReset that leaves the flags as they are
fullResetKeepFlags(e) == reset([e EXCEPT !.words = <<>>, !.index = [N |-> <<>>, F |-> <<>>, S |-> <<>>]])

fullReset(e) ==
    notReady(reset([e EXCEPT !.words = <<>>, !.index = [N |-> <<>>, F |-> <<>>, S |-> <<>>]]))

\* A setWorkingWord that keeps the memo table of the word before
setWorkingWordKeepCache(e, word) == [reset(e) EXCEPT !.workingWord = word]

setWorkingWord(e, word) ==
    [reset(e) EXCEPT !.workingWord = word, !.workingLastCache = {}]

\* setWorkingWord(word) followed by the Last() look-ups of a method
lookUpWord(e, word) ==
    [setWorkingWord(e, word) EXCEPT !.workingLastCache = LastCacheOf(word)]

\* setFirstName / setSecondName / setFatherName: falsy text is ignored
setNamePart(e, text, namePart) ==
    IF text = <<>> THEN e
    ELSE notReady([e EXCEPT !.words = Append(@, [NewWord(text) EXCEPT !.namePart = namePart])])

setFirstName(e, firstname) == setNamePart(e, firstname, "N")

setSecondName(e, secondname) == setNamePart(e, secondname, "S")

setFatherName(e, fathername) == setNamePart(e, fathername, "F")

setGender(e, gender) ==
    [e EXCEPT !.words = [i \in 1..Len(@) |-> [@[i] EXCEPT !.genderSolved = gender]]]

\* prepareAllNameParts: a word without a name part gets the detected one
\* prepareNamePart(word): detectNamePart for a word without a name part
prepareNamePart(e, rec) ==
    IF rec.namePart = "" THEN [rec EXCEPT !.namePart = detectNamePart(e.lang, rec.word)] ELSE rec

\* prepareAllNameParts; detectNamePart sets the working word of each word it
\* looks at, the last of them stays
prepareAllNameParts(e) ==
    LET unset == {i \in 1..Len(e.words) : e.words[i].namePart = ""}
    IN  IF unset = {} THEN e
        ELSE lookUpWord([e EXCEPT !.words = [i \in 1..Len(@) |-> prepareNamePart(e, @[i])]],
                        e.words[CHOOSE i \in unset : \A j \in unset : j <= i].word)

Sum(f, n) ==
    LET RECURSIVE S(_)
        S(i) == IF i = 0 THEN 0 ELSE f[i] + S(i - 1)
    IN  S(n)

\* A solveGender that gives Masculine on a tie of the totals
solveGenderTieMan(e, scored) ==
    LET n      == Len(scored)
        man    == Sum([i \in 1..n |-> scored[i].genderMan], n)
        woman  == Sum([i \in 1..n |-> scored[i].genderWoman], n)
    IN  setGender([e EXCEPT !.words = scored], IF man >= woman THEN MAN ELSE WOMAN)

\* solveGender, second half: no word has a solved gender; scored holds the
\* words after prepareGender.  The gender methods set the working word of
\* every word they score, the last of them stays.
solveGenderByScores(e, scored) ==
    LET n      == Len(scored)
        man    == Sum([i \in 1..n |-> scored[i].genderMan], n)
        woman  == Sum([i \in 1..n |-> scored[i].genderWoman], n)
        named  == {i \in 1..n : scored[i].namePart \in {"N", "F", "S"}}
        e1     == IF named = {} THEN e
                  ELSE lookUpWord(e, scored[CHOOSE i \in named : \A j \in named : j <= i].word)
    IN  setGender([e1 EXCEPT !.words = scored], IF man > woman THEN MAN ELSE WOMAN)

solveGender(e) ==
    LET solved == {i \in 1..Len(e.words) : e.words[i].genderSolved # 0}
    IN  IF solved # {}
        THEN setGender(e, e.words[CHOOSE i \in solved : \A j \in solved : i <= j].genderSolved)
        ELSE solveGenderByScores(e, [i \in 1..Len(e.words) |-> prepareGender(e.lang, e.words[i])])

\* A property name of this.words, as for..in yields it: a string, not a word
WordKey(i) == [instanceOf |-> "String", key |-> i - 1]

\* A word of this.words as a value
WordObject(rec) == [instanceOf |-> "NCLNameCaseWord", word |-> rec]

\* A generateIndex that adds to the groups it finds
generateIndexAppend(e) ==
    LET n     == Len(e.words)
        keysOf(p)  == SelectSeq([i \in 1..n |-> i], LAMBDA i : e.words[i].namePart = p)
        entries(p) == [j \in 1..Len(keysOf(p)) |-> WordKey(keysOf(p)[j])]
    IN  [e EXCEPT !.index = [N |-> @.N \o entries("N"), S |-> @.S \o entries("S"),
                             F |-> @.F \o entries("F")]]

\* generateIndex: this.index[namepart].push(index) throws TypeError at the first
\* word whose name part is none of N, S, F
generateIndex(e) ==
    LET n     == Len(e.words)
        bad   == {i \in 1..n : e.words[i].namePart \notin {"N", "S", "F"}}
        upTo  == IF bad = {} THEN n ELSE (CHOOSE i \in bad : \A j \in bad : i <= j) - 1
        keysOf(p)  == SelectSeq([i \in 1..upTo |-> i], LAMBDA i : e.words[i].namePart = p)
        entries(p) == [j \in 1..Len(keysOf(p)) |-> WordKey(keysOf(p)[j])]
        e1    == [e EXCEPT !.index = [N |-> entries("N"), S |-> entries("S"), F |-> entries("F")]]
    IN  IF bad = {} THEN e1 ELSE Throw(e1, "TypeError")

\* prepareEverything, its last statement: this.ready = true
markReady(e) == IF e.err # "none" THEN e ELSE [e EXCEPT !.ready = TRUE]

prepareEverything(e) ==
    IF e.ready THEN e ELSE markReady(generateIndex(solveGender(prepareAllNameParts(e))))

\* WordCase, the part done for one hyphen-separated chunk cur_words[k]:
\* "yes" when the chunk goes through the rules, "no" when it is kept as it is,
\* "TypeError" when the Russian class is looked up and is not registered
isNormRules(e, name_part_letter, cur_words, k) ==
    LET cur_word == cur_words[k]
        cnt      == Len(cur_words)
    IN  IF name_part_letter = "S" /\ cnt > 1 /\ k - 1 < cnt - 1
        THEN IF toLowerCase(cur_word) \notin {<<"t","u","l","u","z">>}
             THEN IF getConcreteClass(e.concreteClasses, "ru") = "null" THEN "TypeError"
                  ELSE IF RuDetectNamePart(NewWord(cur_word).word) = "S" THEN "yes" ELSE "no"
             ELSE "no"
        ELSE "yes"

\* WordCase, the loop over the chunks from chunk k on.  done holds the engine,
\* the NCLNameCaseWord records of the chunks done (o_cur_words) and last_rule.
RECURSIVE WordCaseChunks(_, _, _, _, _), WordCaseChunk(_, _, _, _, _, _, _)
WordCaseChunks(done, gender, name_part_letter, cur_words, k) ==
    IF k > Len(cur_words) \/ done.e.err # "none" THEN done
    ELSE WordCaseChunk(done, gender, name_part_letter, cur_words, k,
                       isNormRules(done.e, name_part_letter, cur_words, k),
                       nameMethod(done.e.lang, gender, name_part_letter, cur_words[k]))

\* One chunk: norm is is_norm_rules, r what this[method]() leaves behind
WordCaseChunk(done, gender, name_part_letter, cur_words, k, norm, r) ==
    IF norm = "TypeError" THEN [done EXCEPT !.e = Throw(@, "TypeError")]
    ELSE IF norm = "no"
    THEN WordCaseChunks(
             [e |-> setWorkingWord(done.e, cur_words[k]),
              o_cur_words |-> Append(done.o_cur_words,
                                     setNameCases(NewWord(cur_words[k]),
                                                  [i \in 1..CaseCount(done.e.lang) |-> cur_words[k]], TRUE)),
              last_rule |-> -1],
             gender, name_part_letter, cur_words, k + 1)
    ELSE IF r.err # "none" THEN [done EXCEPT !.e = Throw(lookUpWord(@, cur_words[k]), r.err)]
    ELSE IF r.ok
    THEN WordCaseChunks(
             [e |-> [lookUpWord(done.e, cur_words[k]) EXCEPT !.lastResult = r.lastResult,
                                                             !.lastRule = r.lastRule],
              o_cur_words |-> Append(done.o_cur_words,
                                     setNameCases(NewWord(cur_words[k]), r.lastResult, TRUE)),
              last_rule |-> r.lastRule],
             gender, name_part_letter, cur_words, k + 1)
    ELSE WordCaseChunks(
             [e |-> lookUpWord(done.e, cur_words[k]),
              o_cur_words |-> Append(done.o_cur_words,
                                     setNameCases(NewWord(cur_words[k]),
                                                  [i \in 1..CaseCount(done.e.lang) |-> cur_words[k]], TRUE)),
              last_rule |-> -1],
             gender, name_part_letter, cur_words, k + 1)

\* A combining of the chunks that leaves the hyphens out
combineChunksGlued(o_cur_words) ==
    [c \in 1..Len(o_cur_words[1].NameCases) |->
        Join([j \in 1..Len(o_cur_words) |-> o_cur_words[j].NameCases[c]], <<>>)]

\* WordCase, the combining of the chunks: for each case the forms of the
\* chunks that have that case, joined by a hyphen
combineChunks(o_cur_words) ==
    LET lens  == {Len(o_cur_words[j].NameCases) : j \in 1..Len(o_cur_words)}
        cases == IF lens = {} THEN 0 ELSE CHOOSE l \in lens : \A m \in lens : m <= l
        having(c) == SelectSeq(o_cur_words, LAMBDA o : Len(o.NameCases) >= c)
    IN  [c \in 1..cases |-> Join([j \in 1..Len(having(c)) |-> having(c)[j].NameCases[c]], <<"-">>)]

\* WordCase, its end: the cases of the whole word and its rule are set
WordCaseEnd(i, done) ==
    IF done.e.err # "none" THEN done.e
    ELSE [done.e EXCEPT !.words[i] = [setNameCases(@, combineChunks(done.o_cur_words), FALSE)
                                        EXCEPT !.rule = done.last_rule]]

\* WordCase, after word.gender() has solved the gender of the word
WordCaseOf(e, i, gender) ==
    IF e.words[i].namePart \notin {"F", "N", "S"} THEN Throw(e, "Error")
    ELSE WordCaseEnd(i, WordCaseChunks([e |-> e, o_cur_words |-> <<>>, last_rule |-> -1],
                                       gender, e.words[i].namePart,
                                       SplitHyphen(e.words[i].word_orig), 1))

\* WordCase(word), word being this.words[i]
WordCase(e, i) ==
    WordCaseOf([e EXCEPT !.words[i].genderSolved = wordGender(e.words[i])], i,
               IF wordGender(e.words[i]) = MAN THEN "man" ELSE "woman")

\* AllWordCases, the loop over this.words from word i on; an error thrown
\* by WordCase leaves the loop
RECURSIVE WordCaseFrom(_, _), WordCaseNext(_, _)
WordCaseFrom(e, i) ==
    IF i > Len(e.words) THEN e ELSE WordCaseNext(WordCase(e, i), i)

WordCaseNext(e, i) == IF e.err # "none" THEN e ELSE WordCaseFrom(e, i + 1)

\* AllWordCases, its last statement: this.finished = true
markFinished(e) == IF e.err # "none" THEN e ELSE [e EXCEPT !.finished = TRUE]

\* AllWordCases, after prepareEverything
allWordCasesOf(e) == IF e.err # "none" THEN e ELSE markFinished(WordCaseFrom(e, 1))

\* An AllWordCases that declines the words at every call
AllWordCasesAgain(e) == allWordCasesOf(prepareEverything(e))

AllWordCases(e) == IF e.finished THEN e ELSE allWordCasesOf(prepareEverything(e))

\* String.prototype.trim, for the one kind of whitespace the model has
RECURSIVE JsTrim(_)
JsTrim(s) ==
    IF s # <<>> /\ Head(s) = " " THEN JsTrim(Tail(s))
    ELSE IF s # <<>> /\ s[Len(s)] = " " THEN JsTrim(SubSeq(s, 1, Len(s) - 1))
    ELSE s

\* The text a value turns into when it is concatenated to a string
ToText(v) ==
    CASE v.kind = "string" -> v.str
      [] v.kind = "array" -> Join(v.list, <<",">>)
      [] OTHER -> UndefinedText

\* The text of an array element in Array.prototype.join: undefined gives ''
JoinText(v) == IF v.kind = "undefined" THEN <<>> ELSE ToText(v)

\* cases[number] for a number (0-based)
CaseAt(cases, n) == IF n >= 0 /\ n < Len(cases) THEN StringValue(cases[n + 1]) ELSE Undefined

\* getWordCase(word, number): throws Error unless word is an NCLNameCaseWord;
\* null is neither below 0 nor above CaseCount - 1, and cases[null] is undefined
getWordCase(e, word, number) ==
    IF word.instanceOf # "NCLNameCaseWord" THEN Throw(e, "Error")
    ELSE LET cases == word.word.NameCases
         IN  IF number # Null /\ (number[1] < 0 \/ number[1] > CaseCount(e.lang) - 1)
             THEN Return(e, ArrayValue(cases))
             ELSE IF number = Null THEN Return(e, Undefined)
             ELSE Return(e, CaseAt(cases, number[1]))

getCasesConnected(e, indexArray, number) ==
    LET all      == Len(indexArray)
        readyArr == [i \in 1..all |-> getWordCase(e, indexArray[i], number)]
        resultArr == [kase \in 1..CaseCount(e.lang) |->
                        Join([i \in 1..all |-> JoinText(CaseAt(readyArr[i].val.list, kase - 1))], <<" ">>)]
    IN  IF \E i \in 1..all : readyArr[i].err # "none" THEN Throw(e, "Error")
        ELSE IF all = 0 THEN Return(e, StringValue(<<>>))
        ELSE IF readyArr[1].val.kind = "array" THEN Return(e, ArrayValue(resultArr))
        ELSE Return(e, StringValue(Join([i \in 1..all |-> JoinText(readyArr[i].val)], <<" ">>)))

\* getFirstNameCase / getSecondNameCase / getFatherNameCase, after AllWordCases
getNamePartCaseOf(e, namePart, number) ==
    IF e.err # "none" THEN e ELSE getCasesConnected(e, e.index[namePart], number)

getNamePartCase(e, namePart, number) == getNamePartCaseOf(AllWordCases(e), namePart, number)

getFirstNameCase(e, number) == getNamePartCase(e, "N", number)

getSecondNameCase(e, number) == getNamePartCase(e, "S", number)

getFatherNameCase(e, number) == getNamePartCase(e, "F", number)

\* A template is a string ([kind |-> "string"], its letters in str) or an array
\* of words of the engine ([kind |-> "array"], their positions in list)
StringFormat(s) == StringValue(s)

ArrayFormat(positions) == ArrayValue(positions)

getFormattedArrayHard(e, format) ==
    LET line(curCase) ==
            LET RECURSIVE L(_)
                L(j) == IF j > Len(format.list) THEN <<>>
                        ELSE ToText(CaseAt(e.words[format.list[j]].NameCases, curCase)) \o <<" ">> \o L(j + 1)
            IN  JsTrim(L(1))
    IN  Return(e, ArrayValue([c \in 1..CaseCount(e.lang) |-> line(c - 1)]))

getFormattedHard(e, caseNum, format) ==
    LET RECURSIVE L(_)
        L(j) == IF j > Len(format.list) THEN <<>>
                ELSE ToText(CaseAt(e.words[format.list[j]].NameCases, caseNum[1])) \o <<" ">> \o L(j + 1)
    IN  Return(e, StringValue(JsTrim(L(1))))

\* getFormattedArray: with a string template the method reads the variable
\* index, which is declared nowhere: ReferenceError
getFormattedArray(e, format) ==
    IF format.kind = "array" THEN getFormattedArrayHard(e, format)
    ELSE Throw(e, "ReferenceError")

\* getFormatted, the loop over the symbols of a string template from symbol i on
\* getFormatted, what one symbol of a string template adds to the result
formatSymbol(e, caseNum, symbol) ==
    CASE symbol = "lat_S" -> getSecondNameCase(e, caseNum)
      [] symbol = "lat_N" -> getFirstNameCase(e, caseNum)
      [] symbol = "lat_F" -> getFatherNameCase(e, caseNum)
      [] OTHER -> Return(e, StringValue(<<symbol>>))

\* getFormatted, the loop over the symbols of a string template from symbol
\* i on; an error thrown by a getter leaves the loop
RECURSIVE FormatSymbols(_, _, _, _, _), FormatSymbolsNext(_, _, _, _, _)
FormatSymbols(e, caseNum, format, i, result) ==
    IF i > Len(format.str) THEN Return(e, StringValue(result))
    ELSE FormatSymbolsNext(formatSymbol(e, caseNum, format.str[i]), caseNum, format, i, result)

FormatSymbolsNext(e, caseNum, format, i, result) ==
    IF e.err # "none" THEN e
    ELSE FormatSymbols(e, caseNum, format, i + 1, result \o ToText(e.val))

\* getFormatted, after AllWordCases
getFormattedOf(e, caseNum, format) ==
    IF e.err # "none" THEN e
    ELSE IF caseNum = Null \/ caseNum = <<0>> THEN getFormattedArray(e, format)
    ELSE IF format.kind = "array" THEN getFormattedHard(e, caseNum, format)
    ELSE FormatSymbols(e, caseNum, format, 1, <<>>)

getFormatted(e, caseNum, format) == getFormattedOf(AllWordCases(e), caseNum, format)

\* splitFullName: trim and explode are defined nowhere in the program, so the
\* first statement throws ReferenceError before any word is added
splitFullName(e, fullname) == Throw(e, "ReferenceError")

\* if (gender) this.setGender(gender)
setGenderIf(e, gender) == IF gender # 0 THEN setGender(e, gender) ELSE e

qNamePart(e, text, namePart, CaseNumber, gender) ==
    getNamePartCase(setGenderIf(setNamePart(fullReset(e), text, namePart), gender), namePart, CaseNumber)

qFirstName(e, firstName, CaseNumber, gender) == qNamePart(e, firstName, "N", CaseNumber, gender)

qSecondName(e, secondName, CaseNumber, gender) == qNamePart(e, secondName, "S", CaseNumber, gender)

qFatherName(e, fatherName, CaseNumber, gender) == qNamePart(e, fatherName, "F", CaseNumber, gender)

qFullName(e, secondName, firstName, fatherName, gender, caseNum, format) ==
    getFormatted(
        setGenderIf(setFatherName(setSecondName(setFirstName(fullReset(e), firstName), secondName),
                                  fatherName), gender),
        caseNum, format)

\* q: the template is the array of words splitFullName returns
qOf(e, caseNum, gender) ==
    IF e.err # "none" THEN e
    ELSE getFormatted(setGenderIf(e, gender), caseNum, ArrayFormat([i \in 1..Len(e.words) |-> i]))

q(e, fullname, caseNum, gender) == qOf(splitFullName(fullReset(e), fullname), caseNum, gender)

\* setFullName: the given name first, then the family name, then the patronymic
setFullName(e, secondName, firstName, fatherName) ==
    setFatherName(setSecondName(setFirstName(e, firstName), secondName), fatherName)

\* genderAutoDetect, after prepareEverything: the loop "for (var k of
\* this.words)" takes the words themselves as k, this.words[k] is undefined
\* and word.getGender() throws TypeError; without words the result is -1
genderAutoDetectOf(e) ==
    IF e.err # "none" THEN e
    ELSE IF Len(e.words) > 0 THEN Throw(e, "TypeError")
    ELSE Return(e, NumberValue(-1))

genderAutoDetect(e) == genderAutoDetectOf(prepareEverything(e))

genderDetect(e, fullname) == genderAutoDetectOf(splitFullName(fullReset(e), fullname))

\* true and false as values an operation returns
BooleanValue(b) == [Undefined EXCEPT !.kind = "boolean", !.num = IF b THEN 1 ELSE 0]

\* RulesChain called on the engine: r is what the chain leaves behind for the
\* working word.  The rules look the working word up with Last(); a chain
\* whose first rule has no method throws before any rule has run.
rulesChainOf(e, ran, r) ==
    IF r.err # "none"
    THEN Throw(IF ran THEN [e EXCEPT !.workingLastCache = LastCacheOf(e.workingWord)] ELSE e, r.err)
    ELSE IF r.ok
    THEN Return([e EXCEPT !.workingLastCache = LastCacheOf(e.workingWord),
                          !.lastResult = r.lastResult, !.lastRule = r.lastRule],
                BooleanValue(TRUE))
    ELSE Return(IF ran THEN [e EXCEPT !.workingLastCache = LastCacheOf(e.workingWord)] ELSE e,
                BooleanValue(FALSE))

\* this.RulesChain(gender, rulesArray) on the working word of the engine
rulesChainOn(e, gender, rulesArray) ==
    rulesChainOf(e, rulesArray # <<>> /\ rulesArray[1] \in ruleMethods(e.lang)[gender],
                 RulesChain(e.lang, gender, rulesArray, e.workingWord))

\* The entries of the memo table for (length, stopAfter)
LastCached(e, length, stopAfter) ==
    {entry \in e.workingLastCache : entry[1] = length /\ entry[2] = stopAfter}

\* this.Last(length, stopAfter): the memo table is asked first; a slice that
\* is not in it is computed from the working word and put in
LastOn(e, length, stopAfter) ==
    IF LastCached(e, length, stopAfter) # {}
    THEN Return(e, StringValue((CHOOSE entry \in LastCached(e, length, stopAfter) : TRUE)[3]))
    ELSE Return([e EXCEPT !.workingLastCache =
                              @ \cup {<<length, stopAfter, LastSlice(e.workingWord, length, stopAfter)>>}],
                StringValue(LastSlice(e.workingWord, length, stopAfter)))

\* ------------------------------------------------------------------------
\* The methods that take a word, called with a value: a word of this.words
\* ([instanceOf |-> "NCLNameCaseWord", key |-> its position, from 0]) or a
\* value of another type
\* ------------------------------------------------------------------------

\* this.words[key] as an argument
WordRef(i) == [instanceOf |-> "NCLNameCaseWord", key |-> i - 1]

\* A prepareNamePart that looks the argument up before it tests its type
prepareNamePartLate(e, v) == Throw(setWorkingWord(e, <<>>), "Error")

\* A prepareNamePart that detects the name part of every word it is given
prepareNamePartAgain(e, v) ==
    IF v.instanceOf # "NCLNameCaseWord" THEN Throw(e, "Error")
    ELSE Return(lookUpWord([e EXCEPT !.words[v.key + 1].namePart =
                                      detectNamePart(e.lang, e.words[v.key + 1].word)],
                           e.words[v.key + 1].word), Undefined)

\* prepareNamePart(word)
prepareNamePartArg(e, v) ==
    IF v.instanceOf # "NCLNameCaseWord" THEN Throw(e, "Error")
    ELSE IF e.words[v.key + 1].namePart = ""
    THEN Return(lookUpWord([e EXCEPT !.words[v.key + 1] = prepareNamePart(e, @)],
                           e.words[v.key + 1].word), Undefined)
    ELSE Return(e, Undefined)

\* prepareGender(word): the gender method of the name part sets the working
\* word and the scores
prepareGenderArg(e, v) ==
    IF v.instanceOf # "NCLNameCaseWord" THEN Throw(e, "Error")
    ELSE IF e.words[v.key + 1].genderSolved = 0 /\ e.words[v.key + 1].namePart \in {"N", "F", "S"}
    THEN Return(lookUpWord([e EXCEPT !.words[v.key + 1] = prepareGender(e.lang, @)],
                           e.words[v.key + 1].word), Undefined)
    ELSE Return(e, Undefined)

\* WordCase(word)
WordCaseArg(e, v) ==
    IF v.instanceOf # "NCLNameCaseWord" THEN Throw(e, "Error")
    ELSE WordCase(e, v.key + 1)

\* getWordCase(word, number)
getWordCaseArg(e, v, number) ==
    IF v.instanceOf # "NCLNameCaseWord" THEN getWordCase(e, v, number)
    ELSE getWordCase(e, WordObject(e.words[v.key + 1]), number)

\* ------------------------------------------------------------------------
\* The state machine: one action per call of the public interface
\* ------------------------------------------------------------------------

\* Bounds of the model
MaxWords == 2

MaxWordsDecline == 1

\* Tokens of the sessions, by the setter they are given to; the empty text
\* is the falsy argument
FirstNames == {<<>>, <<"T","a","r","a","s">>}

SecondNames == {<<>>, <<"SH","e","v","ch","e","n","k","o">>}

FatherNames == {<<>>, <<"G","r","y","g","o","r","o","v","y","ch">>}

SessionTokens == FirstNames \cup SecondNames \cup FatherNames

\* Tokens of the declension runs: every letter case, hyphens in every place,
\* names the rules treat specially
Tokens ==
    {<<"T","a","r","a","s">>, <<"T","A","R","A","S">>, <<"t","a","r","a","s">>, <<"SH","e","v","ch","e","n","k","o">>, <<"G","r","y","g","o","r","o","v","y","ch">>, <<"O","b","l","o","g","y","n">>, <<"D","e","n","y","s">>, <<"p","a","v","e","l">>, <<"P","a","v","e","l">>,
     <<"P","A","V","E","L">>, <<"L","e","v">>, <<"I","g","o","r">>, <<"O","l","ss","g","a">>, <<"o","l","ss","g","a">>, <<"M","a","r","i","ya">>, <<"A","n","n","a">>, <<"I","v","a","n","i","v","n","a">>, <<"Y","v","a","n","o","v","n","a">>, <<"L","yu","b","o","v">>,
     <<"S","o","l","o","v","e","j">>, <<"SH","v","e","c","ss">>, <<"sh","v","e","c","ss">>, <<"L","o","t","r","e","k">>, <<"P","e","t","r","o","v","-","V","o","d","k","y","n">>, <<"P","E","T","R","O","V","-","V","O","D","K","Y","N">>, <<"T","u","l","u","z","-","L","o","t","r","e","k">>,
     <<"N","e","ch","u","j","-","L","e","v","y","c","ss","k","y","j">>, <<"A","n","n","a","-","M","a","r","i","ya">>, <<"-","P","e","t","r","o","v">>, <<"P","e","t","r","o","v","-">>, <<"P","e","t","r","o","v","-","-","V","o","d","k","y","n">>, <<"d","a","-","V","y","n","ch","y","-","P","e","t","r","o","v">>,
     <<"D","o","n","s","k","a","ya">>, <<"T","o","l","s","t","o","j">>, <<"CH","e","r","n","yy","h">>, <<"YA">>, <<"ya">>, <<"O","'","K","o","n","n","o","r">>}

Genders == {0, MAN, WOMAN}

\* Case numbers: none, negative, nominative, an oblique case, and numbers
\* from the case count of each language on
CaseNumbers == {Null, <<-1>>, <<0>>, <<1>>, <<7>>}

\* String templates: S, N and F are the Latin letters the code looks for
StringFormats == {StringFormat(<<"lat_S", " ", "lat_N", "-", "lat_F">>)}

\* Array templates: the words of the engine in reversed order
ArrayFormats(n) == {ArrayFormat([i \in 1..n |-> n + 1 - i])}

FullNames == {<<"SH","e","v","ch","e","n","k","o"," ","T","a","r","a","s"," ","G","r","y","g","o","r","o","v","y","ch">>, <<"O","b","l","o","g","y","n"," ","D","e","n","y","s">>}

\* Genders set in the sessions: none and the one no token of the sessions has
SessionGenders == {0, WOMAN}

\* Case numbers of the part getters in the sessions
GetterCaseNumbers == {Null, <<1>>, <<7>>}

\* Arguments of the one-call functions in the sessions
SessionCaseNumbers == {<<1>>}

SessionFullNames == {<<"SH","e","v","ch","e","n","k","o"," ","T","a","r","a","s"," ","G","r","y","g","o","r","o","v","y","ch">>}

\* Arguments of the one-call functions in the query runs
QueryTokens == {<<>>, <<"T","a","r","a","s">>, <<"SH","e","v","ch","e","n","k","o">>}

QueryCaseNumbers == {Null, <<0>>, <<1>>}

QueryGenders == {0, WOMAN}

QueryNames ==
    {<<<<"SH","e","v","ch","e","n","k","o">>, <<"T","a","r","a","s">>, <<>>>>, <<<<>>, <<"T","a","r","a","s">>, <<"G","r","y","g","o","r","o","v","y","ch">>>>, <<<<>>, <<>>, <<>>>>}

\* The engine after the call, and the outcome of the call in ret
Apply(op, args, e) ==
    \E r \in {e} :
        /\ lang' = lang
        /\ concreteClasses' = concreteClasses
        /\ words' = r.words
        /\ index' = r.index
        /\ ready' = r.ready
        /\ finished' = r.finished
        /\ workingWord' = r.workingWord
        /\ workingLastCache' = r.workingLastCache
        /\ lastRule' = r.lastRule
        /\ lastResult' = r.lastResult
        /\ gender_koef' = r.gender_koef
        /\ ret' = [op |-> op, args |-> args, err |-> r.err, val |-> r.val]

\* new NCLNameCaseUa() / new NCLNameCaseRu(), with the classes registered
\* (the package is loaded through index.js) or not (the class file is loaded
\* on its own).  The constructor leaves index without name parts; every path
\* that reads index runs generateIndex or fullReset first.
InitAnyLoad ==
    /\ lang \in Langs
    /\ concreteClasses \in {{}, Langs}
    /\ words = <<>>
    /\ index = [N |-> <<>>, F |-> <<>>, S |-> <<>>]
    /\ ready = FALSE
    /\ finished = FALSE
    /\ workingWord = <<>>
    /\ workingLastCache = {}
    /\ lastRule = 0
    /\ lastResult = <<>>
    /\ gender_koef = 0
    /\ ret = [op |-> "new", args |-> <<>>, err |-> "none", val |-> ThisValue]

\* The engine of a package loaded through index.js
Init == InitAnyLoad /\ concreteClasses = Langs

FullReset == Apply("fullReset", <<>>, Return(fullReset(This), ThisValue))

SetFirstName(firstname, limit) ==
    /\ Len(words) < limit
    /\ Apply("setFirstName", <<>>, Return(setFirstName(This, firstname), ThisValue))

SetSecondName(secondname, limit) ==
    /\ Len(words) < limit
    /\ Apply("setSecondName", <<>>, Return(setSecondName(This, secondname), ThisValue))

SetFatherName(fathername, limit) ==
    /\ Len(words) < limit
    /\ Apply("setFatherName", <<>>, Return(setFatherName(This, fathername), ThisValue))

SetGender(gender) == Apply("setGender", <<>>, Return(setGender(This, gender), ThisValue))

\* AllWordCases returns nothing
ReturnNothing(e) == IF e.err # "none" THEN e ELSE Return(e, Undefined)

DoAllWordCases == Apply("AllWordCases", <<>>, ReturnNothing(AllWordCases(This)))

GetFirstNameCase(number) == Apply("getFirstNameCase", <<number>>, getFirstNameCase(This, number))

GetSecondNameCase(number) == Apply("getSecondNameCase", <<number>>, getSecondNameCase(This, number))

GetFatherNameCase(number) == Apply("getFatherNameCase", <<number>>, getFatherNameCase(This, number))

GetFormatted(caseNum, format) ==
    Apply("getFormatted", <<caseNum, format>>, getFormatted(This, caseNum, format))

QFirstName(firstName, CaseNumber, gender) ==
    Apply("qFirstName", <<firstName, CaseNumber, gender>>, qFirstName(This, firstName, CaseNumber, gender))

QSecondName(secondName, CaseNumber, gender) ==
    Apply("qSecondName", <<secondName, CaseNumber, gender>>,
          qSecondName(This, secondName, CaseNumber, gender))

QFatherName(fatherName, CaseNumber, gender) ==
    Apply("qFatherName", <<fatherName, CaseNumber, gender>>,
          qFatherName(This, fatherName, CaseNumber, gender))

QFullName(secondName, firstName, fatherName, gender, caseNum, format) ==
    Apply("qFullName", <<secondName, firstName, fatherName, gender, caseNum, format>>,
          qFullName(This, secondName, firstName, fatherName, gender, caseNum, format))

Q(fullname, caseNum, gender) ==
    Apply("q", <<fullname, caseNum, gender>>, q(This, fullname, caseNum, gender))

Next ==
    \/ FullReset
    \/ \E t \in FirstNames : SetFirstName(t, MaxWords)
    \/ \E t \in SecondNames : SetSecondName(t, MaxWords)
    \/ \E t \in FatherNames : SetFatherName(t, MaxWords)
    \/ \E g \in SessionGenders : SetGender(g)
    \/ DoAllWordCases
    \/ \E c \in GetterCaseNumbers : GetFirstNameCase(c)
    \/ \E c \in GetterCaseNumbers : GetSecondNameCase(c)
    \/ \E c \in GetterCaseNumbers : GetFatherNameCase(c)
    \/ \E c \in CaseNumbers, f \in StringFormats \cup ArrayFormats(Len(words)) : GetFormatted(c, f)
    \/ \E t \in {<<"T","a","r","a","s">>}, c \in SessionCaseNumbers : QFirstName(t, c, 0)
    \/ \E t \in {<<"SH","e","v","ch","e","n","k","o">>}, c \in SessionCaseNumbers : QSecondName(t, c, 0)
    \/ \E t \in {<<"G","r","y","g","o","r","o","v","y","ch">>}, c \in SessionCaseNumbers : QFatherName(t, c, 0)
    \/ \E c \in SessionCaseNumbers, t \in StringFormats : QFullName(<<"SH","e","v","ch","e","n","k","o">>, <<"T","a","r","a","s">>, <<>>, 0, c, t)
    \/ \E t \in SessionFullNames, c \in {<<0>>, <<1>>} : Q(t, c, 0)

Spec == Init /\ [][Next]_vars

\* Declension runs: one word at a time, from the large token set, in a
\* package loaded either way
NextDecline ==
    \/ FullReset
    \/ \E t \in Tokens : SetFirstName(t, MaxWordsDecline)
    \/ \E t \in Tokens : SetSecondName(t, MaxWordsDecline)
    \/ \E t \in Tokens : SetFatherName(t, MaxWordsDecline)
    \/ \E g \in Genders : SetGender(g)
    \/ DoAllWordCases

SpecDecline == InitAnyLoad /\ [][NextDecline]_vars

\* Query runs: the one-call functions, each after any history of setters
\* and earlier calls
NextQuery ==
    \/ FullReset
    \/ \E t \in SessionTokens : SetFirstName(t, MaxWordsDecline)
    \/ \E t \in SessionTokens : SetSecondName(t, MaxWordsDecline)
    \/ \E t \in SessionTokens : SetFatherName(t, MaxWordsDecline)
    \/ \E g \in Genders : SetGender(g)
    \/ DoAllWordCases
    \/ \E t \in QueryTokens, c \in QueryCaseNumbers, g \in QueryGenders : QFirstName(t, c, g)
    \/ \E t \in QueryTokens, c \in QueryCaseNumbers, g \in QueryGenders : QSecondName(t, c, g)
    \/ \E t \in QueryTokens, c \in QueryCaseNumbers, g \in QueryGenders : QFatherName(t, c, g)
    \/ \E n \in QueryNames, c \in QueryCaseNumbers, t \in StringFormats :
          QFullName(n[1], n[2], n[3], 0, c, t)
    \/ \E t \in FullNames, c \in QueryCaseNumbers, g \in QueryGenders : Q(t, c, g)

SpecQuery == Init /\ [][NextQuery]_vars

\* ------------------------------------------------------------------------
\* Gender runs: names of up to three words whose gender evidence disagrees
\* ------------------------------------------------------------------------

MaxWordsGender == 3

\* Given names with masculine (Микола, in the Ukrainian list) and feminine
\* (Элизабет, in the Russian list) evidence of the weight of a patronymic
GenderFirstNames == {<<"M","y","k","o","l","a">>, <<"EH","l","y","z","a","b","e","t">>}

\* Family names without evidence and with feminine evidence
GenderSecondNames == {<<"SH","e","v","ch","e","n","k","o">>, <<"P","e","t","r","o","v","a">>}

\* Patronymics in -ич and in -на
GenderFatherNames == {<<"G","r","y","g","o","r","o","v","y","ch">>, <<"I","v","a","n","i","v","n","a">>}

\* Arguments of setFullName: family name, given name, patronymic
GenderNames == {<<<<"P","e","t","r","o","v","a">>, <<"EH","l","y","z","a","b","e","t">>, <<"G","r","y","g","o","r","o","v","y","ch">>>>, <<<<"SH","e","v","ch","e","n","k","o">>, <<>>, <<>>>>}

GenderFullNames == {<<"SH","e","v","ch","e","n","k","o"," ","T","a","r","a","s"," ","G","r","y","g","o","r","o","v","y","ch">>, <<>>}

GenderCaseNumbers == {<<1>>}

\* How many of the three texts are not empty
NonEmpty(name) == Cardinality({i \in 1..3 : name[i] # <<>>})

SetFullName(secondName, firstName, fatherName, limit) ==
    /\ Len(words) + NonEmpty(<<secondName, firstName, fatherName>>) <= limit
    /\ Apply("setFullName", <<secondName, firstName, fatherName>>,
             Return(setFullName(This, secondName, firstName, fatherName), ThisValue))

SplitFullName(fullname) == Apply("splitFullName", <<fullname>>, splitFullName(This, fullname))

GenderAutoDetect == Apply("genderAutoDetect", <<>>, genderAutoDetect(This))

GenderDetect(fullname) == Apply("genderDetect", <<fullname>>, genderDetect(This, fullname))

\* The words a setter may still add: none when the session holds a word of
\* the part, up to MaxWordsGender words otherwise
PartLimit(namePart) ==
    IF \E i \in 1..Len(words) : words[i].namePart = namePart THEN 0 ELSE MaxWordsGender

NextGender ==
    \/ FullReset
    \/ \E t \in GenderFirstNames : SetFirstName(t, PartLimit("N"))
    \/ \E t \in GenderSecondNames : SetSecondName(t, PartLimit("S"))
    \/ \E t \in GenderFatherNames : SetFatherName(t, PartLimit("F"))
    \/ \E g \in Genders : SetGender(g)
    \/ DoAllWordCases
    \/ \E c \in GenderCaseNumbers, f \in ArrayFormats(Len(words)) : GetFormatted(c, f)

SpecGender == Init /\ [][NextGender]_vars

\* Ingestion runs: every way of adding words, and the gender detection calls
MaxWordsIngest == 2

IngestFirstNames == {<<"T","a","r","a","s">>}

IngestSecondNames == {<<"P","e","t","r","o","v","a">>}

IngestFatherNames == {<<"G","r","y","g","o","r","o","v","y","ch">>}

NextIngest ==
    \/ FullReset
    \/ \E t \in IngestFirstNames : SetFirstName(t, MaxWordsIngest)
    \/ \E t \in IngestSecondNames : SetSecondName(t, MaxWordsIngest)
    \/ \E t \in IngestFatherNames : SetFatherName(t, MaxWordsIngest)
    \/ \E n \in GenderNames : SetFullName(n[1], n[2], n[3], MaxWordsGender)
    \/ \E g \in Genders : SetGender(g)
    \/ DoAllWordCases
    \/ \E c \in GenderCaseNumbers, f \in ArrayFormats(Len(words)) : GetFormatted(c, f)
    \/ \E t \in GenderFullNames : SplitFullName(t)
    \/ GenderAutoDetect
    \/ \E t \in GenderFullNames : GenderDetect(t)

SpecIngest == Init /\ [][NextIngest]_vars

\* ------------------------------------------------------------------------
\* Chain runs: RulesChain called on a working word with chains of rules the
\* class has and chains that name a rule it has not
\* ------------------------------------------------------------------------

\* The chains of the name methods, the empty chain, and chains with the rule
\* 9 no class has, at the start and after a rule
ChainIds == {<<>>, <<1, 2, 3>>, <<5, 1, 2, 3, 4>>, <<3, 1>>, <<9>>, <<1, 9>>, <<2, 9>>, <<9, 1>>}

ChainGenders == {"man", "woman"}

SetWorkingWord(word) == Apply("setWorkingWord", <<word>>, Return(setWorkingWord(This, word), Undefined))

CallRulesChain(gender, rulesArray) ==
    Apply("RulesChain", <<gender, rulesArray>>, rulesChainOn(This, gender, rulesArray))

NextChain ==
    \/ \E t \in Tokens : SetWorkingWord(t)
    \/ \E g \in ChainGenders, ids \in ChainIds : CallRulesChain(g, ids)

SpecChain == Init /\ [][NextChain]_vars

\* ------------------------------------------------------------------------
\* Contract runs: the methods that take a word, called with the words of the
\* engine and with values that are no words
\* ------------------------------------------------------------------------

MaxWordsContract == 2

\* Values that are no NCLNameCaseWord: a key of this.words as for..in gives
\* it, and undefined
ForeignValues == {WordKey(1), [instanceOf |-> "undefined", key |-> 0]}

\* The arguments of a call: the words of the engine and the foreign values
WordArguments == {WordRef(i) : i \in 1..Len(words)} \cup ForeignValues

ContractFirstNames == {<<"A","n","n","a">>}

ContractSecondNames == {<<"P","e","t","r","o","v","-","V","o","d","k","y","n">>}

ContractFatherNames == {<<"G","r","y","g","o","r","o","v","y","ch">>}

ContractCaseNumbers == {<<1>>}

CallPrepareNamePart(word) == Apply("prepareNamePart", <<word>>, prepareNamePartArg(This, word))

CallPrepareGender(word) == Apply("prepareGender", <<word>>, prepareGenderArg(This, word))

CallWordCase(word) == Apply("WordCase", <<word>>, WordCaseArg(This, word))

CallGetWordCase(word, number) ==
    Apply("getWordCase", <<word, number>>, getWordCaseArg(This, word, number))

\* One word for each name part
ContractLimit(namePart) ==
    IF \E i \in 1..Len(words) : words[i].namePart = namePart THEN 0 ELSE MaxWordsContract

NextContract ==
    \/ FullReset
    \/ \E t \in ContractFirstNames : SetFirstName(t, ContractLimit("N"))
    \/ \E t \in ContractSecondNames : SetSecondName(t, ContractLimit("S"))
    \/ \E t \in ContractFatherNames : SetFatherName(t, ContractLimit("F"))
    \/ DoAllWordCases
    \/ \E v \in WordArguments : CallPrepareNamePart(v)
    \/ \E v \in WordArguments : CallPrepareGender(v)
    \/ \E v \in WordArguments : CallWordCase(v)
    \/ \E v \in WordArguments, c \in ContractCaseNumbers : CallGetWordCase(v, c)

SpecContract == Init /\ [][NextContract]_vars

\* ------------------------------------------------------------------------
\* Word runs: one NCLNameCaseWord, held as the only record of words, given
\* case forms with and without the mask
\* ------------------------------------------------------------------------

\* Tokens of the word: title case, uppercase, lowercase, a capital inside,
\* a hyphen, one letter
WordTokens == {<<"O","r","e","l">>, <<"O","R","E","L">>, <<"o","r","e","l">>, <<"o","R","e","l">>, <<"A","n","n","a","-","M","a","r","i","ya">>, <<"YA">>}

\* Lists of case forms: of the length of the token, longer and shorter than
\* it, in lowercase, with capitals, and no form at all
WordForms ==
    {<<<<"o","r","e","l">>, <<"o","r","l","a">>, <<"o","r","l","o","v","i">>>>, <<<<"O","R","E","L">>, <<"o","r">>>>, <<<<"o","R","L","A">>, <<"a","n","n","y","-","m","a","r","i","yi">>, <<"ya">>>>, <<<<"ya","YA">>, <<>>>>, <<>>}

\* new NCLNameCaseWord(word)
ConstructWord(word) ==
    Apply("NCLNameCaseWord", <<word>>, Return([This EXCEPT !.words = <<NewWord(word)>>], ThisValue))

\* word.setNameCases(nameCases, is_return_mask)
CallSetNameCases(nameCases, is_return_mask) ==
    /\ Len(words) = 1
    /\ Apply("setNameCases", <<nameCases, is_return_mask>>,
             Return([This EXCEPT !.words[1] = setNameCases(@, nameCases, is_return_mask)], Undefined))

\* word.returnMask()
CallReturnMask ==
    /\ Len(words) = 1
    /\ Apply("returnMask", <<>>, Return([This EXCEPT !.words[1] = returnMask(@)], Undefined))

NextWord ==
    \/ \E t \in WordTokens : ConstructWord(t)
    \/ \E f \in WordForms, b \in BOOLEAN : CallSetNameCases(f, b)
    \/ CallReturnMask

SpecWord == Init /\ [][NextWord]_vars

\* ------------------------------------------------------------------------
\* Last runs: the working word is set, by setWorkingWord or by a declension,
\* and Last is asked for its endings
\* ------------------------------------------------------------------------

\* The largest length and stopAfter Last is called with
MaxLast == 2

\* Working words: shorter than, as long as and longer than MaxLast
LastWords == {<<"YA">>, <<"YA","n">>, <<"T","a","r","a","s">>, <<"D","e","n","y","s">>}

LastSecondNames == {<<"SH","e","v","ch","e","n","k","o">>}

\* Last(length, stopAfter); Last(length) is Last(length, 0)
CallLast(length, stopAfter) == Apply("Last", <<length, stopAfter>>, LastOn(This, length, stopAfter))

NextLast ==
    \/ \E w \in LastWords : SetWorkingWord(w)
    \/ \E length \in 1..MaxLast, stopAfter \in 0..MaxLast : CallLast(length, stopAfter)
    \/ \E t \in LastSecondNames : SetSecondName(t, 1)
    \/ DoAllWordCases

SpecLast == Init /\ [][NextLast]_vars

\* ------------------------------------------------------------------------
\* Properties
\* ------------------------------------------------------------------------

\* A record WordCase has declined
Declined(rec) == rec.NameCases # <<>>

\* How many times the symbol c is in s
CountChar(s, c) == Cardinality({i \in 1..Len(s) : s[i] = c})

IsUpperLetter(c) == LowerOf[c] # c

IsLowerLetter(c) == UpperOf[c] # c

IsAllUpper(s) == s # <<>> /\ \A i \in 1..Len(s) : IsUpperLetter(s[i]) \/ s[i] = "-"

NoLowerLetter(s) == \A i \in 1..Len(s) : ~IsLowerLetter(s[i])

IsTitle(s) == s # <<>> /\ IsUpperLetter(s[1])

\* C1: every record that WordCase has declined holds exactly CaseCount case
\* forms (7 in the Ukrainian module, 6 in the Russian one), whatever the
\* token, the part, the gender and the hyphens; after AllWordCases has
\* finished every record of the engine is such a record.
C1_CaseCountInvariant ==
    \A i \in 1..Len(words) :
        /\ Declined(words[i]) => Len(words[i].NameCases) = CaseCount(lang)
        /\ finished => Declined(words[i])

\* A hyphenated family name declined by the Ukrainian module: 7 forms
C1_Witness ==
    /\ lang = "ua" /\ finished /\ Len(words) = 1
    /\ words[1].word_orig = <<"N","e","ch","u","j","-","L","e","v","y","c","ss","k","y","j">> /\ words[1].namePart = "S"
    /\ Len(words[1].NameCases) = 7

\* q('Шевченко Тарас Григорович') has been called on the Ukrainian module
C2_Called == lang = "ua" /\ ret.op = "q" /\ ret.args = <<<<"SH","e","v","ch","e","n","k","o"," ","T","a","r","a","s"," ","G","r","y","g","o","r","o","v","y","ch">>, Null, 0>>

\* C2: in the Ukrainian module q('Шевченко Тарас Григорович'), with no case
\* and no gender, makes the records family name, given name, patronymic,
\* all Masculine, and returns the list of 7 strings whose element 1 is
\* 'Шевченка Тараса Григоровича' and whose element 6 is
\* 'Шевченче Тарасе Григоровичу'.
C2_ShevchenkoFullName ==
    C2_Called =>
        /\ ret.err = "none"
        /\ Len(words) = 3
        /\ <<words[1].namePart, words[2].namePart, words[3].namePart>> = <<"S", "N", "F">>
        /\ \A i \in 1..3 : words[i].genderSolved = MAN
        /\ ret.val.kind = "array"
        /\ Len(ret.val.list) = 7
        /\ ret.val.list[2] = <<"SH","e","v","ch","e","n","k","a"," ","T","a","r","a","s","a"," ","G","r","y","g","o","r","o","v","y","ch","a">>
        /\ ret.val.list[7] = <<"SH","e","v","ch","e","n","ch","e"," ","T","a","r","a","s","e"," ","G","r","y","g","o","r","o","v","y","ch","u">>

\* q('Облогин Денис', 1) has been called on the Russian module
C3_Called == lang = "ru" /\ ret.op = "q" /\ ret.args = <<<<"O","b","l","o","g","y","n"," ","D","e","n","y","s">>, <<1>>, 0>>

\* C3: in the Russian module q('Облогин Денис', 1), with no gender, makes
\* the records family name and given name, both Masculine, and returns the
\* one string 'Облогина Дениса'.
C3_ObloginDenis ==
    C3_Called =>
        /\ ret.err = "none"
        /\ Len(words) = 2
        /\ <<words[1].namePart, words[2].namePart>> = <<"S", "N">>
        /\ \A i \in 1..2 : words[i].genderSolved = MAN
        /\ ret.val = StringValue(<<"O","b","l","o","g","y","n","a"," ","D","e","n","y","s","a">>)

\* getFormatted(0, template) or q(text, 0) has been called
C4_Called ==
    \/ ret.op = "getFormatted" /\ ret.args[1] = <<0>>
    \/ ret.op = "q" /\ ret.args[2] = <<0>>

\* C4: case number 0 selects the nominative: getFormatted(0, template) and
\* q(text, 0) return one string, not the list of all cases.
C4_ZeroIsNominative == C4_Called => ret.err = "none" /\ ret.val.kind = "string"

\* The name part a part getter reads
C5_PartOf(op) ==
    CASE op = "getFirstNameCase" -> "N"
      [] op = "getSecondNameCase" -> "S"
      [] op = "getFatherNameCase" -> "F"

\* null, below 0, or from the case count on
C5_Invalid(c) == c = Null \/ c[1] < 0 \/ c[1] >= CaseCount(lang)

\* A call with an invalid case number, on an engine holding the words asked for
C5_Called ==
    \/ /\ ret.op = "getFormatted"
       /\ ret.args[2].kind = "string"
       /\ C5_Invalid(ret.args[1])
       /\ words # <<>>
    \/ /\ ret.op = "qFullName"
       /\ ret.args[6].kind = "string"
       /\ C5_Invalid(ret.args[5])
       /\ words # <<>>
    \/ /\ ret.op \in {"getFirstNameCase", "getSecondNameCase", "getFatherNameCase"}
       /\ C5_Invalid(ret.args[1])
       /\ \E i \in 1..Len(words) : words[i].namePart = C5_PartOf(ret.op)

\* C5: an invalid case number (null, negative, or not below CaseCount) is no
\* error: getFormatted with a string template, qFullName and the three part
\* getters then return the list of exactly CaseCount strings, never one
\* string and never an exception.
C5_InvalidCaseGivesList ==
    C5_Called => ret.err = "none" /\ ret.val.kind = "array" /\ Len(ret.val.list) = CaseCount(lang)

\* The case-c form of a record (c counted from 0)
C6_Form(rec, c) == IF c < Len(rec.NameCases) THEN rec.NameCases[c + 1] ELSE <<>>

\* The case-c forms of the records of a part, in their order, one space apart
C6_PartForms(part, c) ==
    Join([i \in 1..Len(SelectSeq(words, LAMBDA w : w.namePart = part)) |->
             C6_Form(SelectSeq(words, LAMBDA w : w.namePart = part)[i], c)], <<" ">>)

\* The template with S, N and F replaced and every other symbol copied
RECURSIVE C6_Render(_, _)
C6_Render(format, c) ==
    IF format = <<>> THEN <<>>
    ELSE (CASE Head(format) = "lat_S" -> C6_PartForms("S", c)
            [] Head(format) = "lat_N" -> C6_PartForms("N", c)
            [] Head(format) = "lat_F" -> C6_PartForms("F", c)
            [] OTHER -> <<Head(format)>>) \o C6_Render(Tail(format), c)

\* getFormatted(c, template) has been called with a string template and a
\* case number from 1 to CaseCount - 1
C6_Called ==
    /\ ret.op = "getFormatted"
    /\ ret.args[2].kind = "string"
    /\ ret.args[1] # Null
    /\ ret.args[1][1] >= 1
    /\ ret.args[1][1] < CaseCount(lang)

\* C6: with the words set by the setters and 1 <= c < CaseCount,
\* getFormatted(c, template) with a string template returns the template
\* with every S, N and F replaced by the case-c forms of the records of that
\* part (records of one part one space apart, in the order they were set)
\* and every other symbol copied.
C6_FormattedString ==
    C6_Called => ret.err = "none" /\ ret.val = StringValue(C6_Render(ret.args[2].str, ret.args[1][1]))

\* C7: form 0 of every declined record is the token as it was supplied, with
\* the same letters in the same letter case, for every token, part, gender
\* and language module.
C7_NominativeFixedPoint ==
    \A i \in 1..Len(words) : Declined(words[i]) => words[i].NameCases[1] = words[i].word_orig

\* C8: the forms of a token written in uppercase letters hold no lowercase
\* letter, in every case; the forms of a token that starts with an uppercase
\* letter start with an uppercase letter; and the letters of a form beyond
\* the length of the token are the letters the rule produced.
C8_LetterCasePreserved ==
    \A i \in 1..Len(words) : \A c \in 1..Len(words[i].NameCases) :
        /\ IsAllUpper(words[i].word_orig) => NoLowerLetter(words[i].NameCases[c])
        /\ IsTitle(words[i].word_orig) => IsTitle(words[i].NameCases[c])
        /\ (/\ finished
            /\ Len(words) = 1
            /\ words[i].rule > 0
            /\ ~Includes(words[i].word_orig, <<"-">>)
            /\ ~IsAllUpper(words[i].word_orig))
           => /\ Len(lastResult) = Len(words[i].NameCases)
              /\ Len(lastResult[c]) = Len(words[i].NameCases[c])
              /\ \A j \in (Len(words[i].word_orig) + 1)..Len(lastResult[c]) :
                    words[i].NameCases[c][j] = lastResult[c][j]

\* An uppercase hyphenated family name and its uppercase forms
C8_Witness ==
    /\ finished /\ Len(words) = 1
    /\ words[1].word_orig = <<"P","E","T","R","O","V","-","V","O","D","K","Y","N">>
    /\ Len(words[1].NameCases) = CaseCount(lang)
    /\ \A c \in 1..Len(words[1].NameCases) : NoLowerLetter(words[1].NameCases[c])

\* C9: every case form WordCase produces for a family name token holds as
\* many hyphens as the token does, wherever the hyphens of the token are (at
\* its start, at its end, next to each other).
C9_HyphenRoundTrip ==
    \A i \in 1..Len(words) :
        words[i].namePart = "S" =>
            \A c \in 1..Len(words[i].NameCases) :
                CountChar(words[i].NameCases[c], "-") = CountChar(words[i].word_orig, "-")

\* A family name with two hyphens next to each other, declined
C9_Witness ==
    /\ finished /\ Len(words) = 1
    /\ words[1].namePart = "S"
    /\ words[1].word_orig = <<"P","e","t","r","o","v","-","-","V","o","d","k","y","n">>
    /\ Len(words[1].NameCases) = CaseCount(lang)
    /\ CountChar(words[1].NameCases[2], "-") = 2

\* A freshly constructed engine of the language of this one
FreshEngine ==
    [This EXCEPT !.words = <<>>, !.index = [N |-> <<>>, F |-> <<>>, S |-> <<>>], !.ready = FALSE,
                 !.finished = FALSE, !.workingWord = <<>>, !.workingLastCache = {}, !.lastRule = 0,
                 !.lastResult = <<>>, !.gender_koef = 0]

\* The one-call function op with the arguments args, on the engine e
OneCall(e, op, args) ==
    CASE op = "q" -> q(e, args[1], args[2], args[3])
      [] op = "qFirstName" -> qFirstName(e, args[1], args[2], args[3])
      [] op = "qSecondName" -> qSecondName(e, args[1], args[2], args[3])
      [] op = "qFatherName" -> qFatherName(e, args[1], args[2], args[3])
      [] op = "qFullName" -> qFullName(e, args[1], args[2], args[3], args[4], args[5], args[6])

OneCallOps == {"q", "qFirstName", "qSecondName", "qFatherName", "qFullName"}

\* What a call came to: the value it returned or the error it threw
Outcome(e) == <<e.err, e.val>>

ManTotal(ws) == Sum([i \in 1..Len(ws) |-> ws[i].genderMan], Len(ws))

\* The total of the feminine scores of the records ws
WomanTotal(ws) == Sum([i \in 1..Len(ws) |-> ws[i].genderWoman], Len(ws))

\* The records of ws that have a resolved gender
SolvedIn(ws) == {i \in 1..Len(ws) : ws[i].genderSolved # 0}

\* Every record of ws has the resolved gender g
AllSolvedAs(ws, g) == \A i \in 1..Len(ws) : ws[i].genderSolved = g

\* C11: in a step that makes the engine ready (solveGender runs in it): if
\* some record had a resolved gender, every record now has the gender of the
\* first such record; otherwise every record has Masculine when the total of
\* the masculine scores of all records is strictly larger than the total of
\* the feminine scores, and Feminine otherwise (a tie included).
C11_SolveGender ==
    [][(~ready /\ ready') =>
          IF SolvedIn(words) # {}
          THEN AllSolvedAs(words', words[CHOOSE i \in SolvedIn(words) :
                                             \A j \in SolvedIn(words) : i <= j].genderSolved)
          ELSE AllSolvedAs(words', IF ManTotal(words') > WomanTotal(words') THEN MAN ELSE WOMAN)]_vars

\* Three records whose scores were summed: masculine 1001 (the patronymic in
\* -ич and the final consonant of the given name) against feminine 1040
C11_Witness ==
    /\ lang = "ru" /\ ready /\ Len(words) = 3
    /\ ManTotal(words) = 1001 /\ WomanTotal(words) = 1040
    /\ AllSolvedAs(words, WOMAN)

\* C12: in a step in which AllWordCases declines the records (it finishes in
\* that step), every record is declined with one and the same gender,
\* Masculine or Feminine, whatever setters, setGender calls and queries came
\* before.
C12_OneGender ==
    [][(~finished /\ finished') => \E g \in {MAN, WOMAN} : AllSolvedAs(words', g)]_vars

\* The records of ws hold a patronymic that ends in the two letters ending
HasPatronymic(ws, ending) ==
    \E i \in 1..Len(ws) :
        /\ ws[i].namePart = "F"
        /\ Len(ws[i].word) >= 2
        /\ SubSeq(ws[i].word, Len(ws[i].word) - 1, Len(ws[i].word)) = ending

\* C13: in a step that resolves the gender of a name no record of which had
\* a gender set, a name with a patronymic in -ич resolves to Masculine and a
\* name with a patronymic in -на to Feminine, whatever the given name and
\* the family name are, in both languages.
C13_PatronymicDecides ==
    [][(~ready /\ ready' /\ SolvedIn(words) = {}) =>
          /\ HasPatronymic(words, <<"y","ch">>) /\ ~HasPatronymic(words, <<"n","a">>) => AllSolvedAs(words', MAN)
          /\ HasPatronymic(words, <<"n","a">>) /\ ~HasPatronymic(words, <<"y","ch">>) => AllSolvedAs(words', WOMAN)]_vars

\* A freshly constructed engine into which the tokens of the records ws were
\* ingested in their order, each with the part of its record
FreshWith(ws) ==
    [FreshEngine EXCEPT
        !.words = [i \in 1..Len(ws) |-> [NewWord(ws[i].word_orig) EXCEPT !.namePart = ws[i].namePart]]]

\* setGender(g) with g Masculine or Feminine was the last call, on a session
\* that holds words
C14_GenderSet ==
    /\ ret.op = "setGender"
    /\ words # <<>>
    /\ \E g \in {MAN, WOMAN} : AllSolvedAs(words, g)

\* C14: setGender(g), g Masculine or Feminine, on a session that holds words
\* overrides the gender: the getFormatted call that follows returns the
\* forms of the words declined with gender g (what a fresh session with the
\* same words and setGender(g) returns), also when the words were declined
\* by a query before setGender was called.
C14_SetGenderOverrides ==
    [][(C14_GenderSet /\ ret'.op = "getFormatted") =>
          <<ret'.err, ret'.val>> =
              Outcome(getFormatted(setGender(FreshWith(words), words[1].genderSolved),
                                   ret'.args[1], ret'.args[2]))]_vars

\* genderDetect has been called with a full name that is not empty
C15_Called == ret.op = "genderDetect" /\ ret.args[1] # <<>>

\* C15: genderDetect(fullname) with a non-empty full name never raises and
\* returns NCL.MAN or NCL.WOMAN, the gender solveGender has resolved for the
\* records of that name.
C15_GenderDetect ==
    C15_Called =>
        /\ ret.err = "none"
        /\ ret.val.kind = "number"
        /\ ret.val.num \in {MAN, WOMAN}
        /\ words # <<>>
        /\ AllSolvedAs(words, ret.val.num)

\* Every record of ws has a part and an index entry in idx
Classified(ws, idx) ==
    /\ \A i \in 1..Len(ws) : ws[i].namePart \in {"N", "S", "F"}
    /\ Len(idx.N) + Len(idx.S) + Len(idx.F) = Len(ws)

\* Every record of ws has a part, a resolved gender and an index entry in idx
Analysed(ws, idx) == Classified(ws, idx) /\ \A i \in 1..Len(ws) : ws[i].genderSolved # 0

\* C16: every ingestion invalidates readiness, from any state.  A setter or
\* setFullName that adds a word leaves the engine neither ready nor finished;
\* splitFullName(text) with a non-empty text adds its tokens, analyses them
\* and leaves the engine not finished; and a query (AllWordCases,
\* getFormatted) that returns leaves every record classified, indexed and
\* declined.
C16_IngestionInvalidates ==
    [][/\ (ret'.op \in {"setFirstName", "setSecondName", "setFatherName", "setFullName"}
           /\ Len(words') > Len(words))
          => ~ready' /\ ~finished'
       /\ (ret'.op = "splitFullName" /\ ret'.args[1] # <<>>)
          => /\ ret'.err = "none"
             /\ Len(words') > Len(words)
             /\ ~finished'
             /\ Analysed(words', index')
       /\ (ret'.op \in {"AllWordCases", "getFormatted"} /\ ret'.err = "none")
          => /\ Classified(words', index')
             /\ \A i \in 1..Len(words') : Declined(words'[i])]_vars

\* The case forms of the records ws, record by record
FormsOf(ws) == [i \in 1..Len(ws) |-> ws[i].NameCases]

\* The records a fresh session holds after the first k records of ws were
\* ingested and a query has resolved their gender and declined them
AutoResolved(ws, k) == AllWordCases(FreshWith(SubSeq(ws, 1, k))).words

\* The first k records are as an earlier query has auto-resolved and declined
\* them, and the records after them were added since
C17_AddedAfterAuto(k) ==
    /\ k >= 1 /\ k < Len(words)
    /\ SubSeq(words, 1, k) = AutoResolved(words, k)
    /\ \A i \in 1..k : Declined(words[i])
    /\ \A i \in (k + 1)..Len(words) : words[i].genderSolved = 0 /\ ~Declined(words[i])

\* C17: a word added to a session whose gender was auto-resolved invalidates
\* that gender: the query that follows declines the words to the forms a
\* fresh session gives into which the same words were ingested, in the same
\* order, before its first query.
C17_AddedWordResolvesAgain ==
    [][(~finished /\ finished' /\ \E k \in 1..Len(words) : C17_AddedAfterAuto(k)) =>
          FormsOf(words') = FormsOf(AllWordCases(FreshWith(words)).words)]_vars

\* splitFullName has been called with the text 'Шевченко Тарас Григорович'
C18_Called == ret.op = "splitFullName" /\ ret.args[1] = <<"SH","e","v","ch","e","n","k","o"," ","T","a","r","a","s"," ","G","r","y","g","o","r","o","v","y","ch">>

\* C18: splitFullName(text) adds one record for each token of the text, in
\* the order of the text, and returns after every record has a part, a
\* resolved gender and an index entry: after splitFullName('Шевченко Тарас
\* Григорович') the last three records are Шевченко, Тарас, Григорович.
C18_SplitFullName ==
    C18_Called =>
        /\ ret.err = "none"
        /\ Len(words) >= 3
        /\ [i \in 1..3 |-> words[Len(words) - 3 + i].word_orig] = <<<<"SH","e","v","ch","e","n","k","o">>, <<"T","a","r","a","s">>, <<"G","r","y","g","o","r","o","v","y","ch">>>>
        /\ Analysed(words, index)

\* The rule chain the name method of a declined record ends in: <<gender,
\* ids>>, or <<>> when the method ends in no chain
ChainOf(rec) ==
    namePartMethod(lang, IF rec.genderSolved = MAN THEN "man" ELSE "woman", rec.namePart, rec.word_orig).chain

\* The positions of the chain whose rule returns true for the token of rec
Hits(rec) ==
    {p \in 1..Len(ChainOf(rec)[2]) : ruleMethod(lang, ChainOf(rec)[1], ChainOf(rec)[2][p], rec.word_orig).ok}

\* What the first rule of the chain that returns true leaves behind
FirstHit(rec) ==
    ruleMethod(lang, ChainOf(rec)[1],
               ChainOf(rec)[2][CHOOSE p \in Hits(rec) : \A other \in Hits(rec) : p <= other], rec.word_orig)

\* A token without hyphens whose name method ends in a rule chain
C19_Chained(rec) == ~Includes(rec.word_orig, <<"-">>) /\ ChainOf(rec) # <<>>

\* The record rec and the engine fields rule and result are as the first rule
\* of the chain that returns true leaves them or, when no rule returns true,
\* the record holds copies of its token
C19_Applied(rec, rule, result) ==
    IF Hits(rec) # {}
    THEN /\ rule = FirstHit(rec).lastRule
         /\ result = FirstHit(rec).lastResult
         /\ rec.rule = FirstHit(rec).lastRule
         /\ rec.NameCases = returnMask([rec EXCEPT !.NameCases = FirstHit(rec).lastResult]).NameCases
    ELSE /\ rec.rule = -1
         /\ rec.NameCases = [c \in 1..CaseCount(lang) |-> rec.word_orig]

\* C19: in a step in which AllWordCases declines one token without hyphens
\* through a rule chain, RulesChain has tried the rules in the order of ids
\* and stopped at the first rule that returns true: lastResult and lastRule
\* are the ones that rule has set and the record gets its forms and its rule
\* number; when no rule of the chain returns true the record gets CaseCount
\* copies of the token and the rule number -1.
C19_FirstMatchWins ==
    [][(~finished /\ finished' /\ Len(words') = 1 /\ C19_Chained(words'[1])) =>
          C19_Applied(words'[1], lastRule', lastResult')]_vars

\* A token two rules of its chain return true for, declined by the first one
C19_Witness ==
    /\ finished /\ Len(words) = 1 /\ ret.op = "AllWordCases"
    /\ C19_Chained(words[1])
    /\ Cardinality(Hits(words[1])) >= 2
    /\ words[1].rule = FirstHit(words[1]).lastRule
    /\ lastRule = words[1].rule

\* The chain ids names a rule the class of the engine has no method for
C20_MissingRule(gender, ids) == \E p \in 1..Len(ids) : ids[p] \notin ruleMethods(lang)[gender]

\* C20: a chain that names a rule without a method is found when the
\* language class is loaded or registered, never while a word is declined:
\* no RulesChain call on a working word raises the Error 'Method ... not
\* found', and none returns an answer for a chain with a missing rule, also
\* when a rule before the missing one matches the word.
C20_DetectedAtLoad ==
    ret.op = "RulesChain" =>
        /\ ret.err # "Error"
        /\ C20_MissingRule(ret.args[1], ret.args[2]) => ret.err # "none"

\* The methods that require a word
C21_Methods == {"prepareNamePart", "prepareGender", "WordCase", "getWordCase"}

\* The step is a call of one of the methods with a value that is no word
C21_ForeignCall == ret'.op \in C21_Methods /\ ret'.args[1] \in ForeignValues

\* C21: prepareNamePart, prepareGender, WordCase and getWordCase, called
\* with a value that is not an NCLNameCaseWord, throw the Error at once and
\* leave words, index, ready, finished, lastRule, lastResult and workingWord
\* as they were.
C21_ContractViolation ==
    [][C21_ForeignCall =>
          /\ ret'.err = "Error"
          /\ UNCHANGED <<words, index, ready, finished, lastRule, lastResult, workingWord>>]_vars

\* A call with a foreign value has thrown on an engine that holds declined
\* words and a working word
C21_Witness ==
    /\ ret.op \in C21_Methods
    /\ ret.args[1] \in ForeignValues
    /\ ret.err = "Error"
    /\ finished
    /\ Len(words) = 2
    /\ workingWord # <<>>

\* The gender WordCase declines a record with
C22_Gender(rec) == IF rec.genderSolved = MAN THEN "man" ELSE "woman"

\* The forms of a sub-token that is kept as it is
C22_Kept(chunk) == [c \in 1..CaseCount(lang) |-> chunk]

\* What the rule chain of the name part gives for a sub-token
C22_Chain(rec, chunk) == nameMethod(lang, C22_Gender(rec), rec.namePart, chunk)

\* The forms of a sub-token that goes through the rule chain of its name part
C22_ThroughChain(rec, chunk) ==
    setNameCases(NewWord(chunk),
                 IF C22_Chain(rec, chunk).ok THEN C22_Chain(rec, chunk).lastResult ELSE C22_Kept(chunk),
                 TRUE).NameCases

\* Sub-token k of a family name, not the last one, that the language class
\* of the engine does not classify as a family name
C22_NotFamily(rec, k) ==
    /\ rec.namePart = "S"
    /\ k < Len(SplitHyphen(rec.word_orig))
    /\ detectNamePart(lang, NewWord(SplitHyphen(rec.word_orig)[k]).word) # "S"

C22_ChunkForms(rec, k) ==
    IF C22_NotFamily(rec, k) THEN C22_Kept(SplitHyphen(rec.word_orig)[k])
    ELSE C22_ThroughChain(rec, SplitHyphen(rec.word_orig)[k])

C22_Expected(rec) ==
    [c \in 1..CaseCount(lang) |->
        Join([k \in 1..Len(SplitHyphen(rec.word_orig)) |-> C22_ChunkForms(rec, k)[c]], <<"-">>)]

\* C22: when the words are declined, every sub-token of a family name
\* except the last is classified by the language class of the engine itself
\* and goes through the family-name chain only when it is classified as a
\* family name, otherwise every case form of it is the sub-token; the last
\* sub-token, and every sub-token of a first name or patronymic, goes through
\* the chain.  The forms of the record are those of its sub-tokens joined by
\* hyphens.
C22_CompoundSurname ==
    [][(~finished /\ finished' /\ Len(words') = 1) =>
          words'[1].NameCases = C22_Expected(words'[1])]_vars

\* A record declined on its own, by a fresh engine of the language, from the
\* all-lowercase spelling of the token of rec, with the part and gender of rec
C23_LowercaseTwin(rec) ==
    AllWordCases([FreshEngine EXCEPT
                     !.words = <<[NewWord(strtolower(rec.word_orig))
                                    EXCEPT !.namePart = rec.namePart,
                                           !.genderSolved = rec.genderSolved]>>]).words[1]

C23_LowerForms(rec) == [c \in 1..Len(rec.NameCases) |-> strtolower(rec.NameCases[c])]

\* C23: the rules are matched on the lowercase text: a token declined in
\* any spelling selects the rule its all-lowercase spelling selects with the
\* same part and gender, and its forms, put in lowercase, are the forms of
\* the all-lowercase spelling.
C23_CaseInsensitiveRules ==
    [][(~finished /\ finished' /\ Len(words') = 1) =>
          /\ words'[1].rule = C23_LowercaseTwin(words'[1]).rule
          /\ C23_LowerForms(words'[1]) = C23_LowerForms(C23_LowercaseTwin(words'[1]))]_vars

\* C29: declension does not fail on a token: with the classes of both
\* languages registered, AllWordCases on a session of one word, of any part
\* and gender, returns without an error, and the word has its case forms (the
\* forms of a rule or the copies of the token).
C29_DeclensionNeverFails ==
    (ret.op = "AllWordCases" /\ concreteClasses = Langs) =>
        /\ ret.err = "none"
        /\ finished
        /\ \A i \in 1..Len(words) : Declined(words[i])

\* Form kase with the mask of rec put on it, letter by letter: below the
\* length of the mask a letter under 'X' is in uppercase, every other
\* letter is as given
C24_Masked(rec, kase) ==
    [i \in 1..Len(kase) |->
        IF i <= Len(rec.letterMask) /\ rec.letterMask[i] = "X" THEN UpperOf[kase[i]] ELSE kase[i]]

C24_Stored(rec, forms) ==
    /\ Len(rec.NameCases) = Len(forms)
    /\ \A c \in 1..Len(forms) :
          /\ Len(rec.NameCases[c]) = Len(forms[c])
          /\ ~rec.isUpperCase => rec.NameCases[c] = C24_Masked(rec, forms[c])

\* C24: setNameCases(forms, false) stores the forms unchanged;
\* setNameCases(forms, true) stores as many forms, each of the length it
\* was given with, and for a word that is not all-uppercase every letter
\* below the length of the mask is in uppercase where the mask has 'X' and
\* every other letter is as given; putting the mask on a second time changes
\* nothing.
C24_SetNameCases ==
    [][(ret'.op = "setNameCases") =>
          IF ret'.args[2]
          THEN /\ C24_Stored(words'[1], ret'.args[1])
               /\ returnMask(words'[1]) = words'[1]
          ELSE words'[1].NameCases = ret'.args[1]]_vars

\* The mask was put on forms longer and shorter than a mask with a capital
\* in it, and changed a letter
C24_Witness ==
    /\ ret.op = "setNameCases"
    /\ ret.args[2]
    /\ ~words[1].isUpperCase
    /\ \E i \in 1..Len(words[1].letterMask) : words[1].letterMask[i] = "X"
    /\ \E c \in 1..Len(ret.args[1]) : Len(ret.args[1][c]) > Len(words[1].letterMask)
    /\ \E c \in 1..Len(ret.args[1]) : Len(ret.args[1][c]) < Len(words[1].letterMask)
    /\ words[1].NameCases # ret.args[1]

\* The operations that begin with fullReset
C25_Resetting == {"fullReset"} \cup OneCallOps

\* Every record the engine held is still there, at its position, for the
\* token it was made from
C25_RecordsKept ==
    /\ Len(words') >= Len(words)
    /\ \A i \in 1..Len(words) :
          /\ words'[i].word_orig = words[i].word_orig
          /\ words'[i].word = words[i].word
          /\ words'[i].letterMask = words[i].letterMask

\* C25: fullReset puts the engine back in its initial state: no words, the
\* index groups N, S and F empty, ready and finished false, lastRule 0 and
\* lastResult empty; no operation other than fullReset, called directly or
\* inside a one-call function, removes, replaces or reorders a record of
\* words.
C25_FullReset ==
    [][/\ ret'.op = "fullReset" =>
             /\ words' = <<>>
             /\ index' = [N |-> <<>>, F |-> <<>>, S |-> <<>>]
             /\ ~ready' /\ ~finished'
             /\ lastRule' = 0
             /\ lastResult' = <<>>
       /\ ret'.op \notin C25_Resetting => C25_RecordsKept]_vars

\* fullReset has run on an engine that had declined words
C25_Witness ==
    /\ ret.op = "fullReset"
    /\ words = <<>>
    /\ workingWord # <<>>
    /\ ~ready /\ ~finished

\* The step is prepareNamePart called with a word that has a name part
C26_PrepareOfNamed ==
    /\ ret'.op = "prepareNamePart"
    /\ ret'.args[1] \notin ForeignValues
    /\ words[ret'.args[1].key + 1].namePart \in {"N", "S", "F"}

\* The name part a setter gives the record it adds
C26_PartOf(op) ==
    CASE op = "setFirstName" -> "N"
      [] op = "setSecondName" -> "S"
      [] op = "setFatherName" -> "F"
      [] OTHER -> ""

\* C26: a record a setter has added has the part of the setter
\* (setFirstName N, setSecondName S, setFatherName F) and keeps it in every
\* later step, as long as the record exists; prepareNamePart runs
\* detectNamePart only for a record without a part.
C26_ExplicitPartKept ==
    [][/\ (C26_PartOf(ret'.op) # "" /\ Len(words') > Len(words)) =>
             words'[Len(words')].namePart = C26_PartOf(ret'.op)
       /\ ret'.op # "fullReset" =>
             \A i \in 1..Len(words) :
                words[i].namePart \in {"N", "S", "F"} => words'[i].namePart = words[i].namePart
       /\ C26_PrepareOfNamed => UNCHANGED <<words, workingWord, workingLastCache>>]_vars

\* prepareNamePart has returned for a declined family name of a session
\* with two words, whose working word is not that family name
C26_Witness ==
    /\ ret.op = "prepareNamePart"
    /\ ret.err = "none"
    /\ finished
    /\ Len(words) = 2
    /\ ret.args[1] \notin ForeignValues
    /\ words[ret.args[1].key + 1].namePart = "S"
    /\ workingWord # words[ret.args[1].key + 1].word

\* The queries of a session
C27_Queries == {"getFirstNameCase", "getSecondNameCase", "getFatherNameCase", "getFormatted"}

\* Part, gender and case forms of every record
C27_Declension(ws) ==
    [i \in 1..Len(ws) |-> <<ws[i].namePart, ws[i].genderSolved, ws[i].NameCases, ws[i].rule>>]

\* C27: a query (get...NameCase, getFormatted) on a session that is not
\* finished runs AllWordCases: the session is finished after it and its
\* records are those AllWordCases gives; a query on a finished session
\* changes no part, gender or case form; the same query asked twice in a
\* row gives the same outcome.
C27_LazyOnce ==
    [][ret'.op \in C27_Queries =>
          /\ ~finished => (finished' /\ words' = AllWordCases(This).words
                                     /\ \A i \in 1..Len(words') : Declined(words'[i]))
          /\ finished => (finished' /\ C27_Declension(words') = C27_Declension(words))
          /\ (ret.op = ret'.op /\ ret.args = ret'.args) =>
                (ret'.err = ret.err /\ ret'.val = ret.val)]_vars

\* A query has answered with a string on a finished session of two words,
\* one of them declined and of the gender setGender gave it
C27_Witness ==
    /\ ret.op = "getFormatted"
    /\ ret.err = "none"
    /\ ret.val.kind = "string"
    /\ finished
    /\ Len(words) = 2
    /\ \E i \in 1..2 : words[i].genderSolved = WOMAN /\ Declined(words[i])

\* The places <<group, place in the group>> of the index that hold position i
C28_PlacesOf(i) ==
    {pl \in {"N", "S", "F"} \X (1..Len(words)) :
        pl[2] <= Len(index[pl[1]]) /\ index[pl[1]][pl[2]].key = i - 1}

\* The group lists positions in increasing order
C28_Increasing(group) ==
    \A j \in 1..Len(group), k \in 1..Len(group) : j < k => group[j].key < group[k].key

\* C28: in every state in which finished is true, ready is true, every
\* record has a part among N, S, F and exactly CaseCount case forms, the
\* position of every record is in exactly one index group, and every group
\* lists its positions in increasing order.
C28_FinishedInvariant ==
    finished =>
        /\ ready
        /\ \A i \in 1..Len(words) :
              /\ words[i].namePart \in {"N", "S", "F"}
              /\ Len(words[i].NameCases) = CaseCount(lang)
              /\ Cardinality(C28_PlacesOf(i)) = 1
        /\ Len(index.N) + Len(index.S) + Len(index.F) = Len(words)
        /\ \A p \in {"N", "S", "F"} : C28_Increasing(index[p])

\* A finished session of two words of one part, declined a second time
\* after the second word was added
C28_Witness ==
    /\ finished
    /\ Len(words) = 2
    /\ words[1].namePart = words[2].namePart
    /\ Len(index[words[1].namePart]) = 2

\* The stopAfter letters of w that begin length letters before its end; all
\* the letters from there on when stopAfter is 0
C30_Ending(w, length, stopAfter) ==
    SubSeq(w, Len(w) - length + 1,
           IF stopAfter = 0 THEN Len(w) ELSE Len(w) - length + stopAfter)

\* C30: Last(length, stopAfter) with 1 <= stopAfter <= length <= len(w)
\* returns the stopAfter letters that begin length letters before the end of
\* the working word w, and Last(length) its last length letters; the memo
\* table is not observable: after any setWorkingWord and Last calls, Last
\* returns what the slice of the working word gives without the table.
C30_LastUncached ==
    [][ret'.op = "Last" =>
          /\ ret'.err = "none"
          /\ ret'.val = StringValue(LastSlice(workingWord', ret'.args[1], ret'.args[2]))
          /\ (ret'.args[2] <= ret'.args[1] /\ ret'.args[1] <= Len(workingWord')) =>
                ret'.val.str = C30_Ending(workingWord', ret'.args[1], ret'.args[2])
          /\ workingWord' = workingWord]_vars

\* Last(2, 1) has answered for a working word of five letters whose memo
\* table holds three slices or more
C30_Witness ==
    /\ ret.op = "Last"
    /\ ret.args = <<2, 1>>
    /\ workingWord = <<"D","e","n","y","s">>
    /\ ret.val.str = <<"y">>
    /\ Cardinality(workingLastCache) >= 3

====
